---- MODULE Spec2Model ----
(***************************************************************************)
(* GOV.UK Frontend: the Accordion component's expand/collapse state        *)
(* machine, its aggregate "Show all sections" control and the persistence  *)
(* of section state in window.sessionStorage.                              *)
(*                                                                         *)
(* The DOM is the component's state: a section is expanded iff it carries  *)
(* the class govuk-accordion__section--expanded.  Every handler is one     *)
(* atomic action (the browser's event loop runs a handler to completion).  *)
(* A handler is modelled as a function from "world" records to "world"     *)
(* records, written statement by statement after the source; an exception  *)
(* is the field `threw`, which makes every later statement a no-op until   *)
(* something catches it.                                                   *)
(***************************************************************************)
EXTENDS Integers, Sequences, FiniteSets, TLC

\* ------------------------------------------------------------------ bounds
\* Largest number of sections in the accordion's markup.
MaxSections == 2
\* Largest number of sections of the markup that lack a sub-element.
MaxMalformed == 1
\* The largest of the consecutive counts the fallback plural rules are applied to.
MaxCount == 125

\* --------------------------------------------------------------- constants
\* JavaScript's null (an absent attribute, an absent storage item).
Null == "<null>"
\* The sentinel the storage probe writes, as key and as value.
testString == "this is the test string"
\* The id attribute of the accordion's root element.
ModuleId == "accordion"
\* The shapes a section's markup can have:
\*   ok        header, heading, button span and content wrapper
\*   noHeader  no .govuk-accordion__section-header
\*   noButton  a header without the .govuk-accordion__section-button span
\*   noContent no .govuk-accordion__section-content
Shapes == {"ok", "noHeader", "noButton", "noContent"}

VARIABLES
  markup,      \* the page's markup: per section its shape and whether it carries the expanded class
  config,      \* the merged configuration of the live component
  sections,    \* the live DOM of each section
  showAll,     \* the live DOM of the aggregate "Show all sections" button
  browserSupportsSessionStorage,
  sessionStorage,  \* window.sessionStorage: key -> string or Null
  instance,    \* how the constructor ended: "none" (not run), "inert" (returned at a
               \* guard), "live" (ran to its end) or "aborted" (threw)
  calls,       \* the storage calls the last handler made, in order
  last,        \* the last handler that ran and how it ended
  i18n,        \* a translation engine of its own (an I18n instance) and its last call to t
  exitThisPage \* the page's ExitThisPage component, the DOM it owns and the window's timers

vars == <<markup, config, sections, showAll, browserSupportsSessionStorage,
          sessionStorage, instance, calls, last, i18n, exitThisPage>>

\* ------------------------------------------------------------------ markup
SectionIds == 1..Len(markup)
HasHeader(s) == markup[s].shape # "noHeader"
HasSpan(s) == markup[s].shape \in {"ok", "noContent"}
HasContent(s) == markup[s].shape # "noContent"

\* The DOM of a section as the page's markup gives it, before any script ran.
MarkupSection(m) ==
  [expanded |-> m.expanded, ariaExpanded |-> Null, hidden |-> FALSE,
   chevronDown |-> FALSE, toggleText |-> "", ariaLabel |-> Null,
   built |-> FALSE, wired |-> FALSE]

\* The aggregate control does not exist before initControls.
NoShowAll == [ariaExpanded |-> Null, chevronDown |-> FALSE, built |-> FALSE, text |-> ""]

\* setExpanded finds the section's icon, text, button and content: the header
\* was built by constructHeaderMarkup and the markup has a content wrapper.
WellFormed(s) == sections[s].built /\ HasContent(s)

\* ------------------------------------------------------------------- store
\* `${this.$module.id}-content-${index + 1}`, index counted from 0.
ContentId(index) == <<ModuleId, index + 1>>
SentinelKey == <<testString, 0>>
StoreKeys == {SentinelKey} \cup {ContentId(s - 1) : s \in SectionIds}

\* `${expanded}` and expanded.toString()
BoolString(b) == IF b THEN "true" ELSE "false"

\* The storage call about to be made is the one this handler's run fails at
\* (w.throwAt = k > 0: the k-th storage call of the run throws; 0: none does).
Throws(w) == Len(w.calls) + 1 = w.throwAt

\* A call's entry in the log: its value is the one written (setItem) or the one
\* returned (getItem); ok is FALSE when the call threw.
Call(op, key, value, ok) == [ok |-> ok, op |-> op, key |-> key, value |-> value]

setItem(w, key, value) ==
  IF w.threw THEN w
  ELSE IF Throws(w)
    THEN [w EXCEPT !.calls = Append(@, Call("setItem", key, value, FALSE)),
                   !.threw = TRUE]
    ELSE [w EXCEPT !.calls = Append(@, Call("setItem", key, value, TRUE)),
                   !.store[key] = IF w.lossy THEN @ ELSE value]

\* The value read is w.store[key]; this is the call's effect on the world.
getItem(w, key) ==
  IF w.threw THEN w
  ELSE IF Throws(w)
    THEN [w EXCEPT !.calls = Append(@, Call("getItem", key, Null, FALSE)),
                   !.threw = TRUE]
    ELSE [w EXCEPT !.calls = Append(@, Call("getItem", key, w.store[key], TRUE))]

removeItem(w, key) ==
  IF w.threw THEN w
  ELSE IF Throws(w)
    THEN [w EXCEPT !.calls = Append(@, Call("removeItem", key, Null, FALSE)),
                   !.threw = TRUE]
    ELSE [w EXCEPT !.calls = Append(@, Call("removeItem", key, Null, TRUE)),
                   !.store[key] = Null]

\* --------------------------------------------------------------- JS values
\* A JavaScript value with its typeof.  A finite number is v, or v + 1/2 when
\* half; a number that is not finite is NaN, Infinity or -Infinity.
Str(v) == [v |-> v, type |-> "string"]
Num(v) == [v |-> v, type |-> "number", isFinite |-> TRUE, half |-> FALSE]
NumHalf(v) == [v |-> v, type |-> "number", isFinite |-> TRUE, half |-> TRUE]
NotFinite(name) == [type |-> "number", isFinite |-> FALSE, name |-> name]
Bool(b) == [b |-> b, type |-> "boolean"]
Undefined == [type |-> "undefined"]
\* An object with the given own properties (a function from names to values).
Object(props) == [type |-> "object", props |-> props]
\* The object without own properties.
EmptyObject == Object([k \in {} |-> Undefined])

\* !value, for the values a lookup key or an options argument can be.
Falsy(value) ==
  \/ value.type = "undefined"
  \/ value.type = "string" /\ value.v = ""
  \/ value.type = "boolean" /\ ~value.b

\* Object.prototype.hasOwnProperty.call(object, name)
hasOwnProperty(object, name) == object.type = "object" /\ name \in DOMAIN object.props

Char(str, i) == SubSeq(str, i, i)

\* `${n}` for an integer n.
RECURSIVE NatToString(_)
NatToString(n) ==
  IF n < 10 THEN Char("0123456789", n + 1)
  ELSE NatToString(n \div 10) \o Char("0123456789", (n % 10) + 1)

IntToString(n) == IF n < 0 THEN "-" \o NatToString(-n) ELSE NatToString(n)

\* `${value}` for a finite number.
NumberToString(value) ==
  IF ~value.half THEN IntToString(value.v)
  ELSE IF value.v = -1 THEN "-0.5"
  ELSE IF value.v < 0 THEN IntToString(value.v + 1) \o ".5"
  ELSE IntToString(value.v) \o ".5"

\* ------------------------------------------------------ /%{(.\S+)}/ matching
\* \s and the line terminators "." does not match, among the characters of
\* the model's strings.
Whitespace == {" ", "\t", "\n", "\r", "\f"}
LineTerminators == {"\n", "\r"}

\* The end of the longest run of non-whitespace characters starting at i
\* (i - 1 when the character at i is whitespace or i is past the end).
RECURSIVE NonSpaceRunEnd(_, _)
NonSpaceRunEnd(str, i) ==
  IF i > Len(str) \/ Char(str, i) \in Whitespace THEN i - 1
  ELSE NonSpaceRunEnd(str, i + 1)

\* Where the match of %{(.\S+)} that starts at i ends (the index of its
\* closing brace), or 0 when there is none: "%{", then one character that is
\* not a line terminator, then as many non-whitespace characters as possible
\* (one at least) such that "}" follows.
MatchEndAt(str, i) ==
  IF i + 4 > Len(str) \/ Char(str, i) # "%" \/ Char(str, i + 1) # "{"
     \/ Char(str, i + 2) \in LineTerminators
    THEN 0
    ELSE LET runEnd == NonSpaceRunEnd(str, i + 3)
             ends == {j \in (i + 4)..runEnd : Char(str, j) = "}"}
         IN IF ends = {} THEN 0 ELSE CHOOSE j \in ends : \A k \in ends : k <= j

\* The start of the first match at or after position from, or 0.
RECURSIVE MatchStartFrom(_, _)
MatchStartFrom(str, from) ==
  IF from > Len(str) THEN 0
  ELSE IF MatchEndAt(str, from) # 0 THEN from
  ELSE MatchStartFrom(str, from + 1)

\* translationString.match(/%{(.\S+)}/), as a condition.
match(translationString) == MatchStartFrom(translationString, 1) # 0

\* -------------------------------------------------------------- class I18n
\* How a call ends: it returns value, or throws an Error with message value.
Return(value) == [value |-> value, threw |-> FALSE]
Throw(message) == [value |-> message, threw |-> TRUE]

PluralRule == {"zero", "one", "two", "few", "many", "other"}

\* I18n.pluralRulesMap
pluralRulesMap ==
  [arabic |-> {"ar"},
   chinese |-> {"my", "zh", "id", "ja", "jv", "ko", "ms", "th", "vi"},
   french |-> {"hy", "bn", "fr", "gu", "hi", "fa", "pa", "zu"},
   german |-> {"af", "sq", "az", "eu", "bg", "ca", "da", "nl", "en", "et", "fi", "ka",
               "de", "el", "hu", "lb", "no", "so", "sw", "sv", "ta", "te", "tr", "ur"},
   irish |-> {"ga"},
   russian |-> {"ru", "uk"},
   scottish |-> {"gd"},
   spanish |-> {"pt-PT", "it", "es"},
   welsh |-> {"cy"}]

\* I18n.pluralRules, for an integer n >= 0.
arabic(n) ==
  IF n = 0 THEN "zero"
  ELSE IF n = 1 THEN "one"
  ELSE IF n = 2 THEN "two"
  ELSE IF n % 100 >= 3 /\ n % 100 <= 10 THEN "few"
  ELSE IF n % 100 >= 11 /\ n % 100 <= 99 THEN "many"
  ELSE "other"

chinese(n) == "other"

french(n) == IF n = 0 \/ n = 1 THEN "one" ELSE "other"

german(n) == IF n = 1 THEN "one" ELSE "other"

irish(n) ==
  IF n = 1 THEN "one"
  ELSE IF n = 2 THEN "two"
  ELSE IF n >= 3 /\ n <= 6 THEN "few"
  ELSE IF n >= 7 /\ n <= 10 THEN "many"
  ELSE "other"

\* The Russian rule without its exceptions for 11 to 14.
russianByLastDigit(n) ==
  LET lastDigit == n % 10
  IN IF lastDigit = 1 THEN "one"
     ELSE IF lastDigit >= 2 /\ lastDigit <= 4 THEN "few"
     ELSE "many"

\* The Russian rule whose many branch leaves out the last digit 0.
russianWithoutZero(n) ==
  LET lastTwo == n % 100
      lastDigit == lastTwo % 10
  IN IF lastDigit = 1 /\ lastTwo # 11 THEN "one"
     ELSE IF lastDigit >= 2 /\ lastDigit <= 4 /\ ~(lastTwo >= 12 /\ lastTwo <= 14) THEN "few"
     ELSE IF (lastDigit >= 5 /\ lastDigit <= 9) \/ (lastTwo >= 11 /\ lastTwo <= 14) THEN "many"
     ELSE "other"

russian(n) ==
  LET lastTwo == n % 100
      lastDigit == lastTwo % 10
  IN IF lastDigit = 1 /\ lastTwo # 11 THEN "one"
     ELSE IF lastDigit >= 2 /\ lastDigit <= 4 /\ ~(lastTwo >= 12 /\ lastTwo <= 14) THEN "few"
     ELSE IF lastDigit = 0 \/ (lastDigit >= 5 /\ lastDigit <= 9)
             \/ (lastTwo >= 11 /\ lastTwo <= 14) THEN "many"
     ELSE "other"

scottish(n) ==
  IF n = 1 \/ n = 11 THEN "one"
  ELSE IF n = 2 \/ n = 12 THEN "two"
  ELSE IF (n >= 3 /\ n <= 10) \/ (n >= 13 /\ n <= 19) THEN "few"
  ELSE "other"

spanish(n) ==
  IF n = 1 THEN "one"
  ELSE IF n % 1000000 = 0 /\ n # 0 THEN "many"
  ELSE "other"

welsh(n) ==
  IF n = 0 THEN "zero"
  ELSE IF n = 1 THEN "one"
  ELSE IF n = 2 THEN "two"
  ELSE IF n = 3 THEN "few"
  ELSE IF n = 6 THEN "many"
  ELSE "other"

\* I18n.pluralRules[ruleset](n)
pluralRules(ruleset, n) ==
  CASE ruleset = "arabic" -> arabic(n)
    [] ruleset = "chinese" -> chinese(n)
    [] ruleset = "french" -> french(n)
    [] ruleset = "german" -> german(n)
    [] ruleset = "irish" -> irish(n)
    [] ruleset = "russian" -> russian(n)
    [] ruleset = "scottish" -> scottish(n)
    [] ruleset = "spanish" -> spanish(n)
    [] ruleset = "welsh" -> welsh(n)

\* locale.split('-')[0]
RECURSIVE SplitFirst(_, _)
SplitFirst(locale, i) ==
  IF i > Len(locale) THEN locale
  ELSE IF Char(locale, i) = "-" THEN SubSeq(locale, 1, i - 1)
  ELSE SplitFirst(locale, i + 1)

\* The name of the plural rule for the engine's locale, or Null (undefined):
\* no language is listed under two rules, so the order of the search does not
\* matter.
getPluralRulesForLocale(engine) ==
  LET locale == engine.locale
      localeShort == SplitFirst(locale, 1)
      found == {pluralRule \in DOMAIN pluralRulesMap :
                  locale \in pluralRulesMap[pluralRule]
                    \/ localeShort \in pluralRulesMap[pluralRule]}
  IN IF found = {} THEN Null ELSE CHOOSE pluralRule \in found : TRUE

\* Math.floor(count) without Math.abs.
Floor(count) == count.v

\* Math.abs(Math.floor(count)) for a finite count (the floor of v + 1/2 is v).
AbsFloor(count) == IF count.v < 0 THEN -count.v ELSE count.v

selectPluralFormUsingFallbackRules(engine, count) ==
  LET n == AbsFloor(count)
      ruleset == getPluralRulesForLocale(engine)
  IN IF ruleset # Null THEN pluralRules(ruleset, n) ELSE "other"

\* The runtime (window.Intl) of a call: whether Intl.PluralRules and
\* Intl.NumberFormat exist and support the engine's locale, and the category
\* new Intl.PluralRules(locale).select(count) gives.
hasIntlPluralRulesSupport(runtime) == runtime.pluralRules
hasIntlNumberFormatSupport(runtime) == runtime.numberFormat

\* getPluralSuffix that falls back to "other" without looking for it in the
\* translations.
getPluralSuffixOtherUnchecked(engine, runtime, lookupKey, count) ==
  IF ~count.isFinite THEN Return("other")
  ELSE LET preferredForm ==
             IF hasIntlPluralRulesSupport(runtime) THEN runtime.select
             ELSE selectPluralFormUsingFallbackRules(engine, count)
       IN IF (lookupKey \o "." \o preferredForm) \in DOMAIN engine.translations
            THEN Return(preferredForm)
          ELSE Return("other")

\* getPluralSuffix that throws when the preferred form is missing, whether or
\* not the "other" form is there.
getPluralSuffixNoFallback(engine, runtime, lookupKey, count) ==
  IF ~count.isFinite THEN Return("other")
  ELSE LET preferredForm ==
             IF hasIntlPluralRulesSupport(runtime) THEN runtime.select
             ELSE selectPluralFormUsingFallbackRules(engine, count)
       IN IF (lookupKey \o "." \o preferredForm) \in DOMAIN engine.translations
            THEN Return(preferredForm)
          ELSE Throw("i18n: Plural form \".other\" is required for \"" \o engine.locale
                       \o "\" locale")

getPluralSuffix(engine, runtime, lookupKey, count) ==
  IF ~count.isFinite THEN Return("other")
  ELSE LET preferredForm ==
             IF hasIntlPluralRulesSupport(runtime) THEN runtime.select
             ELSE selectPluralFormUsingFallbackRules(engine, count)
       IN IF (lookupKey \o "." \o preferredForm) \in DOMAIN engine.translations
            THEN Return(preferredForm)
          ELSE IF (lookupKey \o ".other") \in DOMAIN engine.translations
            THEN Return("other")
          ELSE Throw("i18n: Plural form \".other\" is required for \"" \o engine.locale
                       \o "\" locale")

\* The symbols of new Intl.NumberFormat(locale) in the runtime's locale data,
\* for the locales engines have in the specifications below; for another
\* locale the operator is not defined. All of these write infinity as U+221E
\* and the minus sign as "-". A character outside Latin-1 is written as its
\* escape \uXXXX (narrow no-break space U+202F, infinity, Cyrillic letters);
\* the group separator and the space in the not-a-number text of "ru" are the
\* no-break space U+00A0 itself.
NumberFormatSymbols(locale) ==
  CASE locale \in {"en", "en-GB", "cy"} -> [decimal |-> ".", group |-> ",", nan |-> "NaN"]
    [] locale = "ru" ->
         [decimal |-> ",", group |-> " ",
          nan |-> "\\u043d\\u0435 \\u0447\\u0438\\u0441\\u043b\\u043e"]
    [] locale = "fr" -> [decimal |-> ",", group |-> "\\u202f", nan |-> "NaN"]

\* The integer n in decimal digits, in groups of three divided by group.
RECURSIVE GroupThousands(_, _)
GroupThousands(n, group) ==
  IF n < 1000 THEN NatToString(n)
  ELSE GroupThousands(n \div 1000, group) \o group
         \o Char("0123456789", ((n \div 100) % 10) + 1)
         \o Char("0123456789", ((n \div 10) % 10) + 1)
         \o Char("0123456789", (n % 10) + 1)

\* formatter.format(value) of new Intl.NumberFormat(this.locale), for the
\* numbers of the model: integers and integers and a half, NaN and the
\* infinities.
format(engine, value) ==
  LET symbols == NumberFormatSymbols(engine.locale)
      whole == IF value.v >= 0 THEN value.v
               ELSE IF value.half THEN -(value.v + 1) ELSE -value.v
  IN IF ~value.isFinite
       THEN CASE value.name = "NaN" -> symbols.nan
              [] value.name = "Infinity" -> "\\u221e"
              [] value.name = "-Infinity" -> "-\\u221e"
     ELSE (IF value.v < 0 THEN "-" ELSE "")
            \o GroupThousands(whole, symbols.group)
            \o (IF value.half THEN symbols.decimal \o "5" ELSE "")

\* What the replacer function of replacePlaceholders returns for the
\* placeholder's value.
PlaceholderText(engine, runtime, placeholderValue) ==
  IF (placeholderValue.type = "boolean" /\ ~placeholderValue.b)
     \/ (placeholderValue.type # "number" /\ placeholderValue.type # "string")
    THEN ""
  ELSE IF placeholderValue.type = "number"
    THEN IF hasIntlNumberFormatSupport(runtime) THEN format(engine, placeholderValue)
         ELSE IF placeholderValue.isFinite THEN NumberToString(placeholderValue)
         ELSE placeholderValue.name
  ELSE placeholderValue.v

\* translationString.replace(/%{(.\S+)}/g, replacer) from position from on:
\* the matches are replaced left to right, the text between them is kept, and
\* the first placeholder that options has no own property for throws.
RECURSIVE ReplaceFrom(_, _, _, _, _)
ReplaceFrom(engine, runtime, translationString, options, from) ==
  LET start == MatchStartFrom(translationString, from)
  IN IF start = 0
       THEN Return(SubSeq(translationString, from, Len(translationString)))
     ELSE LET end == MatchEndAt(translationString, start)
              placeholderWithBraces == SubSeq(translationString, start, end)
              placeholderKey == SubSeq(translationString, start + 2, end - 1)
              rest == ReplaceFrom(engine, runtime, translationString, options, end + 1)
          IN IF ~hasOwnProperty(options, placeholderKey)
               THEN Throw("i18n: no data found to replace " \o placeholderWithBraces
                            \o " placeholder in string")
             ELSE IF rest.threw THEN rest
             ELSE Return(SubSeq(translationString, from, start - 1)
                           \o PlaceholderText(engine, runtime, options.props[placeholderKey])
                           \o rest.value)

replacePlaceholders(engine, runtime, translationString, options) ==
  ReplaceFrom(engine, runtime, translationString, options, 1)

\* new I18n that prefers the language of the document to config.locale.
I18nDocumentFirst(translations, i18nConfig, documentLang) ==
  [locale |-> IF documentLang # "" THEN documentLang
              ELSE IF hasOwnProperty(i18nConfig, "locale") /\ ~Falsy(i18nConfig.props["locale"])
                THEN i18nConfig.props["locale"].v
              ELSE "en",
   translations |-> translations]

\* new I18n(translations, config) on a page whose <html lang> is documentLang
\* ("" when it has none); the config argument is an object, or undefined.
I18n(translations, i18nConfig, documentLang) ==
  [locale |-> IF hasOwnProperty(i18nConfig, "locale") /\ ~Falsy(i18nConfig.props["locale"])
                THEN i18nConfig.props["locale"].v
              ELSE IF documentLang # "" THEN documentLang
              ELSE "en",
   translations |-> translations]

\* I18n.t that returns the empty string for a key without translation string.
I18n_tMissingKeyGivesEmpty(engine, runtime, lookupKey, options) ==
  IF Falsy(lookupKey) THEN Throw("i18n: lookup key missing")
  ELSE LET counted == /\ ~Falsy(options)
                      /\ hasOwnProperty(options, "count")
                      /\ options.props["count"].type = "number"
           suffix == getPluralSuffix(engine, runtime, lookupKey.v, options.props["count"])
           key == IF counted THEN lookupKey.v \o "." \o suffix.value ELSE lookupKey.v
           translationString == engine.translations[key]
       IN IF counted /\ suffix.threw THEN suffix
          ELSE IF key \in DOMAIN engine.translations /\ translationString.type = "string"
            THEN IF match(translationString.v)
                   THEN IF Falsy(options)
                          THEN Throw("i18n: cannot replace placeholders in string if no option data provided")
                        ELSE replacePlaceholders(engine, runtime, translationString.v, options)
                 ELSE Return(translationString.v)
          ELSE Return("")

\* I18n.t that takes the empty string for a lookup key.
I18n_tAcceptsEmptyKey(engine, runtime, lookupKey, options) ==
  IF lookupKey.type = "undefined" THEN Throw("i18n: lookup key missing")
  ELSE LET counted == /\ ~Falsy(options)
                      /\ hasOwnProperty(options, "count")
                      /\ options.props["count"].type = "number"
           suffix == getPluralSuffix(engine, runtime, lookupKey.v, options.props["count"])
           key == IF counted THEN lookupKey.v \o "." \o suffix.value ELSE lookupKey.v
           translationString == engine.translations[key]
       IN IF counted /\ suffix.threw THEN suffix
          ELSE IF key \in DOMAIN engine.translations /\ translationString.type = "string"
            THEN IF match(translationString.v)
                   THEN IF Falsy(options)
                          THEN Throw("i18n: cannot replace placeholders in string if no option data provided")
                        ELSE replacePlaceholders(engine, runtime, translationString.v, options)
                 ELSE Return(translationString.v)
          ELSE Return(key)

\* I18n.t(lookupKey, options): lookupKey is a string or undefined, options an
\* object or undefined.
I18n_t(engine, runtime, lookupKey, options) ==
  IF Falsy(lookupKey) THEN Throw("i18n: lookup key missing")
  ELSE LET counted == /\ ~Falsy(options)
                      /\ hasOwnProperty(options, "count")
                      /\ options.props["count"].type = "number"
           suffix == getPluralSuffix(engine, runtime, lookupKey.v, options.props["count"])
           key == IF counted THEN lookupKey.v \o "." \o suffix.value ELSE lookupKey.v
           translationString == engine.translations[key]
       IN IF counted /\ suffix.threw THEN suffix
          ELSE IF key \in DOMAIN engine.translations /\ translationString.type = "string"
            THEN IF match(translationString.v)
                   THEN IF Falsy(options)
                          THEN Throw("i18n: cannot replace placeholders in string if no option data provided")
                        ELSE replacePlaceholders(engine, runtime, translationString.v, options)
                 ELSE Return(translationString.v)
          ELSE Return(key)

\* engine.t(lookupKey, options) that drops the translation strings of the
\* engine once it has returned.
I18n_tCallDroppingTranslations(engine, runtime, lookupKey, options) ==
  LET result == I18n_t(engine, runtime, lookupKey, options)
  IN [result |-> result,
      this |-> IF result.threw THEN engine
               ELSE [engine EXCEPT !.translations = [k \in {} |-> Undefined]]]

\* engine.t(lookupKey, options) as its caller sees it: the engine when the call
\* ends and what the call returned or threw. t assigns its parameter lookupKey
\* and the local translationString, replacePlaceholders the local formatter,
\* getPluralSuffix its parameter count and the local preferredForm; no
\* statement of them, of selectPluralFormUsingFallbackRules or of
\* getPluralRulesForLocale assigns this.translations, one of its entries,
\* this.locale or a property of options, and the class keeps nothing outside
\* its instances.
I18n_tCall(engine, runtime, lookupKey, options) ==
  [result |-> I18n_t(engine, runtime, lookupKey, options), this |-> engine]

\* Timeout ids the window hands out before the model stops setting timers.
MaxTimerId == 7

\* Overlay elements on the page before the model stops calling exitPage.
MaxOverlays == 2

\* ---------------------------------------------------------- exit this page
\* ExitThisPage.defaults
ExitThisPage_defaults ==
  [i18n |-> [activated |-> "Loading.", timedOut |-> "Exit this page expired.",
             pressTwoMoreTimes |-> "Shift, press 2 more times to exit.",
             pressOneMoreTime |-> "Shift, press 1 more time to exit."]]

\* this.i18n.t(lookupKey) on the engine the constructor builds from the
\* component's translations.
ExitThisPage_t(lookupKey) ==
  LET table == ExitThisPage_defaults.i18n
      engine == I18n([k \in DOMAIN table |-> Str(table[k])], Undefined, "")
      runtime == [pluralRules |-> FALSE, numberFormat |-> FALSE, select |-> "other"]
  IN I18n_t(engine, runtime, Str(lookupKey), Undefined).value

\* The component when its constructor returns, with the elements it built and
\* the window's timers. A timeout id that is null is written 0: setTimeout
\* returns positive ids, each one greater than the last. overlay is the text
\* of the element this.$overlay refers to, Null when it refers to none;
\* overlays counts the overlay elements in the body of the document.
NoExitThisPage ==
  [keypressCounter |-> 0, lastKeyWasModified |-> FALSE,
   keypressTimeoutId |-> 0, timeoutMessageId |-> 0,
   updateSpan |-> "", overlay |-> Null, overlays |-> 0,
   hideContent |-> FALSE, location |-> Null,
   indicator |-> [visible |-> FALSE, lit |-> 0],
   timers |-> {}, nextTimerId |-> 1]

\* window.clearTimeout(id): nothing happens for null or for an id not pending.
clearTimeout(e, id) == [e EXCEPT !.timers = {timer \in @ : timer.id # id}]

\* window.setTimeout(callback, this.timeoutTime); the id returned is
\* e.nextTimerId.
setTimeout(e, callback) ==
  [e EXCEPT !.timers = @ \cup {[id |-> e.nextTimerId, callback |-> callback]},
            !.nextTimerId = @ + 1]

updateIndicator(e) ==
  [e EXCEPT !.indicator = [visible |-> e.keypressCounter > 0,
                           lit |-> IF e.keypressCounter < 3 THEN e.keypressCounter ELSE 3]]

\* exitPage(): every call creates an overlay element, appends it to the body
\* and makes this.$overlay refer to it; an overlay of an earlier call stays in
\* the body.
exitPage(e) ==
  [e EXCEPT !.updateSpan = "", !.hideContent = TRUE,
            !.overlay = ExitThisPage_t("activated"), !.overlays = @ + 1,
            !.location = "href"]

setKeypressTimer(e) ==
  LET cleared == clearTimeout(e, e.keypressTimeoutId)
  IN [setTimeout(cleared, "resetKeypressTimer") EXCEPT !.keypressTimeoutId = cleared.nextTimerId]

resetKeypressTimer(e) ==
  LET cleared == clearTimeout(e, e.keypressTimeoutId)
      reset == [cleared EXCEPT !.keypressTimeoutId = 0, !.keypressCounter = 0,
                               !.updateSpan = ExitThisPage_t("timedOut")]
  IN updateIndicator([setTimeout(reset, "clearUpdateSpan")
                        EXCEPT !.timeoutMessageId = reset.nextTimerId])

\* handleKeypress(event) for a keyup event of the key with its shiftKey flag.
handleKeypress(e, event) ==
  LET counted == updateIndicator([e EXCEPT !.keypressCounter = @ + 1])
      quiet == IF counted.timeoutMessageId # 0
                 THEN [clearTimeout(counted, counted.timeoutMessageId)
                         EXCEPT !.timeoutMessageId = 0]
               ELSE counted
      zeroed == [quiet EXCEPT !.keypressCounter = 0]
      acted == IF quiet.keypressCounter >= 3
                 THEN exitPage(IF zeroed.keypressTimeoutId # 0
                                 THEN [clearTimeout(zeroed, zeroed.keypressTimeoutId)
                                         EXCEPT !.keypressTimeoutId = 0]
                               ELSE zeroed)
               ELSE IF quiet.keypressCounter = 1
                 THEN [quiet EXCEPT !.updateSpan = ExitThisPage_t("pressTwoMoreTimes")]
               ELSE [quiet EXCEPT !.updateSpan = ExitThisPage_t("pressOneMoreTime")]
      handled == IF event.key = "Shift" /\ ~e.lastKeyWasModified THEN setKeypressTimer(acted)
                 ELSE IF e.keypressTimeoutId # 0 THEN resetKeypressTimer(e)
                 ELSE e
  IN [handled EXCEPT !.lastKeyWasModified = event.shiftKey]

\* resetPage(): removes the one overlay this.$overlay refers to, if any, and
\* clears the two timeouts without setting their ids to null.
resetPage(e) ==
  LET shown == [e EXCEPT !.hideContent = FALSE]
      removed == IF shown.overlay # Null
                   THEN [shown EXCEPT !.overlay = Null, !.overlays = @ - 1]
                 ELSE shown
      bare == updateIndicator([removed EXCEPT !.updateSpan = ""])
      first == IF bare.keypressTimeoutId # 0 THEN clearTimeout(bare, bare.keypressTimeoutId)
               ELSE bare
  IN IF first.timeoutMessageId # 0 THEN clearTimeout(first, first.timeoutMessageId)
     ELSE first

\* -------------------------------------------------------------------- i18n
\* Accordion.defaults.i18n
defaults ==
  [hideAllSections |-> "Hide all sections", hideSection |-> "Hide",
   hideSectionAriaLabel |-> "Hide this section", showAllSections |-> "Show all sections",
   showSection |-> "Show", showSectionAriaLabel |-> "Show this section"]

\* Accordion.defaults
Accordion_defaults == [i18n |-> defaults, rememberExpanded |-> TRUE]

\* A translation string with a placeholder, as a misconfigured page may give
\* for one of the component's keys.
WithPlaceholder == "%{sections} sections"

\* The translation tables a page can configure: the defaults, or the defaults
\* with one string replaced by one that has a placeholder.
Translations ==
  {defaults} \cup {[defaults EXCEPT ![k] = WithPlaceholder] : k \in DOMAIN defaults}

\* The strings of the component's translation tables that match /%{(.\S+)}/.
\* I18n.t called with a lookup key and no options throws when the translation
\* string is one of them.
HasPlaceholder ==
  {translationString \in UNION {{i[k] : k \in DOMAIN i} : i \in Translations} :
     match(translationString)}

tThrows(w, lookupKey) ==
  /\ lookupKey \in DOMAIN w.config.i18n
  /\ w.config.i18n[lookupKey] \in HasPlaceholder

\* I18n.t for a lookup key and no options, when it does not throw: the
\* translation string, or the lookup key itself when there is none.
t(w, lookupKey) ==
  IF lookupKey \in DOMAIN w.config.i18n THEN w.config.i18n[lookupKey] ELSE lookupKey

\* --------------------------------------------------------------- Accordion
isExpanded(w, s) == w.sections[s].expanded

checkIfAllSectionsOpen(w) ==
  LET sectionsCount == Len(w.sections)
      expandedSectionCount ==
        Cardinality({s \in DOMAIN w.sections : w.sections[s].expanded})
  IN sectionsCount = expandedSectionCount

updateShowAllButton(w, expanded) ==
  LET lookupKey == IF expanded THEN "hideAllSections" ELSE "showAllSections"
  IN IF w.threw THEN w
     ELSE IF tThrows(w, lookupKey) THEN [w EXCEPT !.threw = TRUE]
     ELSE [w EXCEPT !.showAll.ariaExpanded = BoolString(expanded),
                    !.showAll.text = t(w, lookupKey),
                    !.showAll.chevronDown = ~expanded]

\* The elements setExpanded looks up in the section.
HasShowHideIcon(w, s) == w.sections[s].built
HasShowHideText(w, s) == w.sections[s].built
HasButton(w, s) == HasSpan(s)

setExpanded(w, expanded, s) ==
  IF w.threw THEN w
  ELSE IF ~HasShowHideIcon(w, s) \/ ~HasShowHideText(w, s) \/ ~HasButton(w, s) \/ ~HasContent(s)
    THEN w
    ELSE LET textKey == IF expanded THEN "hideSection" ELSE "showSection"
             labelKey == IF expanded THEN "hideSectionAriaLabel" ELSE "showSectionAriaLabel"
             w1 == [w EXCEPT !.sections[s].toggleText = t(w, textKey),
                             !.sections[s].ariaExpanded = BoolString(expanded)]
             w2 == [w1 EXCEPT !.sections[s].ariaLabel = t(w, labelKey),
                              !.sections[s].hidden = ~expanded,
                              !.sections[s].expanded = expanded,
                              !.sections[s].chevronDown = ~expanded]
         IN IF tThrows(w, textKey) THEN [w EXCEPT !.threw = TRUE]
            ELSE IF tThrows(w, labelKey) THEN [w1 EXCEPT !.threw = TRUE]
            ELSE updateShowAllButton(w2, checkIfAllSectionsOpen(w2))

\* The button carries aria-controls once constructHeaderMarkup has built it;
\* the attribute's value is the section's content id.
HasAriaControls(w, s) == w.sections[s].built
AriaControls(s) == ContentId(s - 1)

\* storeState that does not test browserSupportsSessionStorage.
storeStateIgnoresProbe(w, s) ==
  IF w.threw THEN w
  ELSE IF w.config.rememberExpanded /\ HasButton(w, s) /\ HasAriaControls(w, s)
          /\ w.sections[s].ariaExpanded # Null
    THEN setItem(w, AriaControls(s), w.sections[s].ariaExpanded)
    ELSE w

\* storeState that does not test config.rememberExpanded.
storeStateIgnoresConfig(w, s) ==
  IF w.threw THEN w
  ELSE IF w.supports /\ HasButton(w, s) /\ HasAriaControls(w, s)
          /\ w.sections[s].ariaExpanded # Null
    THEN setItem(w, AriaControls(s), w.sections[s].ariaExpanded)
    ELSE w

\* storeState that writes "true" whatever the button's aria-expanded.
storeStateAlwaysTrue(w, s) ==
  IF w.threw THEN w
  ELSE IF w.supports /\ w.config.rememberExpanded /\ HasButton(w, s)
          /\ HasAriaControls(w, s) /\ w.sections[s].ariaExpanded # Null
    THEN setItem(w, AriaControls(s), "true")
    ELSE w

storeState(w, s) ==
  IF w.threw THEN w
  ELSE IF w.supports /\ w.config.rememberExpanded
    THEN IF HasButton(w, s)
      THEN LET contentState == w.sections[s].ariaExpanded
           IN IF HasAriaControls(w, s) /\ contentState # Null
                THEN setItem(w, AriaControls(s), contentState)
                ELSE w
      ELSE w
    ELSE w

\* setInitialState that does not test config.rememberExpanded.
setInitialStateIgnoresConfig(w, s) ==
  IF w.threw THEN w
  ELSE IF w.supports /\ HasButton(w, s) /\ HasAriaControls(w, s)
    THEN LET w1 == getItem(w, AriaControls(s))
             contentState == w.store[AriaControls(s)]
         IN IF contentState # Null THEN setExpanded(w1, contentState = "true", s) ELSE w1
    ELSE w

\* setInitialState comparing the stored string with the boolean true, which
\* no string equals.
setInitialStateStrictBoolean(w, s) ==
  IF w.threw THEN w
  ELSE IF w.supports /\ w.config.rememberExpanded /\ HasButton(w, s) /\ HasAriaControls(w, s)
    THEN LET w1 == getItem(w, AriaControls(s))
             contentState == w.store[AriaControls(s)]
         IN IF contentState # Null THEN setExpanded(w1, FALSE, s) ELSE w1
    ELSE w

\* setInitialState that restores only a stored "true".
setInitialStateOnlyTrue(w, s) ==
  IF w.threw THEN w
  ELSE IF w.supports /\ w.config.rememberExpanded /\ HasButton(w, s) /\ HasAriaControls(w, s)
    THEN LET w1 == getItem(w, AriaControls(s))
             contentState == w.store[AriaControls(s)]
         IN IF contentState = "true" THEN setExpanded(w1, TRUE, s) ELSE w1
    ELSE w

setInitialState(w, s) ==
  IF w.threw THEN w
  ELSE IF w.supports /\ w.config.rememberExpanded
    THEN IF HasButton(w, s)
      THEN LET w1 == IF HasAriaControls(w, s) THEN getItem(w, AriaControls(s)) ELSE w
               contentState ==
                 IF HasAriaControls(w, s) THEN w.store[AriaControls(s)] ELSE Null
           IN IF contentState # Null
                THEN setExpanded(w1, contentState = "true", s)
                ELSE w1
      ELSE w
    ELSE w

constructHeaderMarkup(w, s) ==
  IF w.threw THEN w
  ELSE IF ~HasSpan(s) THEN w
  ELSE [w EXCEPT !.sections[s].built = TRUE]

\* The callback storing the state of the markup before it restores the
\* stored one.
initSectionHeaderStoring(w, s) ==
  IF w.threw THEN w
  ELSE IF ~HasHeader(s) THEN w
  ELSE LET w1 == constructHeaderMarkup(w, s)
           w2 == storeState(setExpanded(w1, isExpanded(w1, s), s), s)
           w3 == IF w2.threw THEN w2 ELSE [w2 EXCEPT !.sections[s].wired = TRUE]
       IN setInitialState(w3, s)

\* The body of the forEach callback of initSectionHeaders, for one section.
initSectionHeader(w, s) ==
  IF w.threw THEN w
  ELSE IF ~HasHeader(s) THEN w
  ELSE LET w1 == constructHeaderMarkup(w, s)
           w2 == setExpanded(w1, isExpanded(w1, s), s)
           w3 == IF w2.threw THEN w2 ELSE [w2 EXCEPT !.sections[s].wired = TRUE]
       IN setInitialState(w3, s)

RECURSIVE initSectionHeadersFrom(_, _)
initSectionHeadersFrom(w, s) ==
  IF s > Len(w.sections) THEN w
  ELSE initSectionHeadersFrom(initSectionHeader(w, s), s + 1)

initSectionHeaders(w) == initSectionHeadersFrom(w, 1)

initControls(w) ==
  IF w.threw THEN w
  ELSE [w EXCEPT !.showAll = [ariaExpanded |-> "false", chevronDown |-> FALSE, built |-> TRUE,
                              text |-> ""]]

checkForSessionStorage(w) ==
  LET w1 == setItem(w, SentinelKey, testString)
      w2 == getItem(w1, SentinelKey)
      result == w1.store[SentinelKey] = testString
      w3 == removeItem(w2, SentinelKey)
  IN IF w3.threw
       THEN [w3 EXCEPT !.threw = FALSE, !.supports = FALSE]
       ELSE [w3 EXCEPT !.supports = result]

\* The constructor with the storage probe moved before the check for sections.
AccordionProbesFirst(w, rememberExpanded, supported) ==
  IF ~supported THEN w
  ELSE LET w0 == [w EXCEPT !.config.rememberExpanded = rememberExpanded]
           w1 == checkForSessionStorage(w0)
       IN IF Len(w.sections) = 0 THEN w1
          ELSE LET w2 == initControls(w1)
                   w3 == initSectionHeaders(w2)
               IN updateShowAllButton(w3, checkIfAllSectionsOpen(w3))

\* new Accordion($module, config), the configuration being the defaults with
\* the given rememberExpanded; `supported` is the constructor's first guard
\* ($module is an HTMLElement and the page has govuk-frontend-supported).
Accordion(w, rememberExpanded, supported) ==
  IF ~supported THEN w
  ELSE IF Len(w.sections) = 0 THEN [w EXCEPT !.config.rememberExpanded = rememberExpanded]
  ELSE LET w0 == [w EXCEPT !.config.rememberExpanded = rememberExpanded]
           w1 == checkForSessionStorage(w0)
           w2 == initControls(w1)
           w3 == initSectionHeaders(w2)
       IN updateShowAllButton(w3, checkIfAllSectionsOpen(w3))

\* onBeforeMatch that toggles the section instead of expanding it.
onBeforeMatchToggles(w, s) == setExpanded(w, ~isExpanded(w, s), s)

\* onBeforeMatch that stores the state of the section, as a click does.
onBeforeMatchStores(w, s) == storeState(setExpanded(w, TRUE, s), s)

\* s is the section event.target.closest('.govuk-accordion__section') finds.
onBeforeMatch(w, s) == setExpanded(w, TRUE, s)

\* onSectionToggle that does not negate the section's state.
onSectionToggleAlwaysExpands(w, s) == storeState(setExpanded(w, TRUE, s), s)

onSectionToggle(w, s) ==
  LET expanded == isExpanded(w, s)
      w1 == setExpanded(w, ~expanded, s)
  IN storeState(w1, s)

\* The loop of onShowOrHideAllToggle without its storeState call.
RECURSIVE toggleAllFromSkipsStore(_, _, _)
toggleAllFromSkipsStore(w, nowExpanded, s) ==
  IF s > Len(w.sections) THEN w
  ELSE toggleAllFromSkipsStore(setExpanded(w, nowExpanded, s), nowExpanded, s + 1)

RECURSIVE toggleAllFrom(_, _, _)
toggleAllFrom(w, nowExpanded, s) ==
  IF s > Len(w.sections) THEN w
  ELSE toggleAllFrom(storeState(setExpanded(w, nowExpanded, s), s), nowExpanded, s + 1)

\* onShowOrHideAllToggle without the negation of checkIfAllSectionsOpen.
onShowOrHideAllToggleSameState(w) ==
  LET nowExpanded == checkIfAllSectionsOpen(w)
      w1 == toggleAllFrom(w, nowExpanded, 1)
  IN updateShowAllButton(w1, nowExpanded)

onShowOrHideAllToggle(w) ==
  LET nowExpanded == ~checkIfAllSectionsOpen(w)
      w1 == toggleAllFrom(w, nowExpanded, 1)
  IN updateShowAllButton(w1, nowExpanded)

\* ------------------------------------------------------------ state machine
Markups ==
  {m \in UNION {[1..n -> [shape : Shapes, expanded : BOOLEAN]] : n \in 0..MaxSections} :
     Cardinality({s \in DOMAIN m : m[s].shape # "ok"}) <= MaxMalformed}

\* No call to t yet.
NoCall == [made |-> FALSE]

\* No engine of its own on the page, and no call to it.
NoI18n == [engine |-> Null, call |-> NoCall]

\* What is kept of the last handler: which one ran, on which section, whether
\* it threw; for toggleAll the nowExpanded it computed; for beforematch and
\* toggleSection the sections' expanded values before it, or, when it is the
\* second of two toggles of one section in succession (twice), before the
\* first of the two.
NoLast == [op |-> "none", threw |-> FALSE, nowExpanded |-> FALSE, section |-> 0,
           twice |-> FALSE, before |-> <<>>, stage |-> 0]

Expanded == [s \in DOMAIN sections |-> sections[s].expanded]

\* The world a handler starts in: the live DOM, the component's fields and the
\* store, with the handler's inputs.
World(throwAt, lossy) ==
  [config |-> config, sections |-> sections, showAll |-> showAll,
   calls |-> <<>>, throwAt |-> throwAt, threw |-> FALSE, store |-> sessionStorage,
   lossy |-> lossy, supports |-> browserSupportsSessionStorage]

\* The end-to-end scenario: a page of three well-formed sections, collapsed in
\* the markup.
ScenarioMarkup == [s \in 1..3 |-> [shape |-> "ok", expanded |-> FALSE]]

\* How far the handlers run so far have followed the scenario, the last one
\* being op (on section s, ending in world w; working: no storage call of it
\* threw and the store kept what was written):
\*   1  an initialize with rememberExpanded and an available store left the
\*      three sections collapsed
\*   2  then section 2 was toggled      3  then all sections were toggled
\*   4  then the page was loaded again  5  then initialize ran again
\*   0  otherwise
ScenarioStage(op, s, w, working) ==
  IF markup # ScenarioMarkup \/ ~working \/ w.threw THEN 0
  ELSE IF op = "initialize" /\ w.supports /\ w.config.rememberExpanded /\ w.showAll.built
    THEN IF last.stage = 4 THEN 5
         ELSE IF \A x \in DOMAIN w.sections : ~w.sections[x].expanded THEN 1 ELSE 0
  ELSE IF op = "toggleSection" /\ s = 2 /\ last.stage = 1 THEN 2
  ELSE IF op = "toggleAll" /\ last.stage = 2 THEN 3
  ELSE 0

\* The page as loaded, before its scripts run, in a browsing session whose
\* store is empty.
Init ==
  /\ exitThisPage = NoExitThisPage
  /\ markup \in Markups
  /\ config = Accordion_defaults
  /\ sections = [s \in DOMAIN markup |-> MarkupSection(markup[s])]
  /\ showAll = NoShowAll
  /\ browserSupportsSessionStorage = FALSE
  /\ sessionStorage = [k \in StoreKeys |-> Null]
  /\ instance = "none"
  /\ calls = <<>>
  /\ last = NoLast
  /\ i18n = NoI18n

\* The variables after a handler that ended in world w.  (The actions bind w
\* with \E over a singleton so that the handler is evaluated once.)
Becomes(w) ==
  /\ sections' = w.sections
  /\ showAll' = w.showAll
  /\ browserSupportsSessionStorage' = w.supports
  /\ sessionStorage' = w.store
  /\ calls' = w.calls

\* The storage calls of a handler's run that may throw: none (0), or the k-th
\* of the calls the handler makes when none throws (clean is that run's end).
ThrowAts(clean) == 0..Len(clean.calls)

\* The page is (re)loaded: the DOM is the markup again and no component
\* exists; the page's translations and the session's store are kept.
PageLoad ==
  /\ instance # "none"
  /\ sections' = [s \in DOMAIN markup |-> MarkupSection(markup[s])]
  /\ showAll' = NoShowAll
  /\ browserSupportsSessionStorage' = FALSE
  /\ config' = [Accordion_defaults EXCEPT !.i18n = config.i18n]
  /\ instance' = "none"
  /\ calls' = <<>>
  /\ last' = [NoLast EXCEPT !.stage = IF last.stage = 3 THEN 4 ELSE 0]
  /\ UNCHANGED <<exitThisPage, markup, sessionStorage, i18n>>

\* initialize: the component is constructed on the freshly loaded page with
\* the page's configuration.  lossy: the store drops what is written to it
\* without throwing (the probe's read-back then differs from the sentinel).
Initialize(rememberExpanded, supported) ==
  /\ instance = "none"
  /\ ~supported => rememberExpanded
  /\ \E clean \in {Accordion(World(0, FALSE), rememberExpanded, supported)} :
       \E throwAt \in ThrowAts(clean), lossy \in BOOLEAN :
         /\ lossy => (supported /\ throwAt = 0)
         /\ \E w \in {IF throwAt = 0 /\ ~lossy THEN clean
                      ELSE Accordion(World(throwAt, lossy), rememberExpanded, supported)} :
              /\ Becomes(w)
              /\ config' = w.config
              /\ instance' = IF w.threw THEN "aborted"
                             ELSE IF w.showAll.built THEN "live" ELSE "inert"
              /\ last' = [NoLast EXCEPT
                            !.op = "initialize", !.threw = w.threw,
                            !.stage = ScenarioStage("initialize", 0, w, throwAt = 0 /\ ~lossy)]
  /\ UNCHANGED <<exitThisPage, markup, i18n>>

\* A click on the header of section s.
ToggleSection(s) ==
  /\ sections[s].wired
  /\ \E clean \in {onSectionToggle(World(0, FALSE), s)} :
       \E throwAt \in ThrowAts(clean) :
         \E w \in {IF throwAt = 0 THEN clean ELSE onSectionToggle(World(throwAt, FALSE), s)} :
           /\ Becomes(w)
           /\ LET twice == last.op = "toggleSection" /\ last.section = s /\ ~last.twice
              IN last' = [NoLast EXCEPT !.op = "toggleSection", !.section = s,
                                        !.threw = w.threw, !.twice = twice,
                                        !.before = IF twice THEN last.before ELSE Expanded,
                                        !.stage = ScenarioStage("toggleSection", s, w,
                                                                throwAt = 0)]
  /\ UNCHANGED <<exitThisPage, markup, config, instance, i18n>>

\* A click on the "Show all sections" button.
ToggleAll ==
  /\ showAll.built
  /\ \E clean \in {onShowOrHideAllToggle(World(0, FALSE))} :
       \E throwAt \in ThrowAts(clean) :
         \E w \in {IF throwAt = 0 THEN clean ELSE onShowOrHideAllToggle(World(throwAt, FALSE))} :
           /\ Becomes(w)
           /\ last' = [NoLast EXCEPT !.op = "toggleAll", !.threw = w.threw,
                                     !.nowExpanded = ~checkIfAllSectionsOpen(World(0, FALSE)),
                                     !.stage = ScenarioStage("toggleAll", 0, w, throwAt = 0)]
  /\ UNCHANGED <<exitThisPage, markup, config, instance, i18n>>

\* A beforematch event whose target lies in section s.
BeforeMatch(s) ==
  /\ showAll.built
  /\ \E w \in {onBeforeMatch(World(0, FALSE), s)} :
       /\ Becomes(w)
       /\ last' = [NoLast EXCEPT !.op = "beforematch", !.section = s, !.threw = w.threw,
                                 !.before = Expanded]
  /\ UNCHANGED <<exitThisPage, markup, config, instance, i18n>>

Next ==
  \/ PageLoad
  \/ \E r \in BOOLEAN, p \in BOOLEAN : Initialize(r, p)
  \/ \E s \in SectionIds : ToggleSection(s)
  \/ ToggleAll
  \/ \E s \in SectionIds : BeforeMatch(s)

Spec == Init /\ [][Next]_vars

\* The component on the scenario's page.
InitScenario ==
  /\ exitThisPage = NoExitThisPage
  /\ markup = ScenarioMarkup
  /\ config = Accordion_defaults
  /\ sections = [s \in DOMAIN markup |-> MarkupSection(markup[s])]
  /\ showAll = NoShowAll
  /\ browserSupportsSessionStorage = FALSE
  /\ sessionStorage = [k \in StoreKeys |-> Null]
  /\ instance = "none"
  /\ calls = <<>>
  /\ last = NoLast
  /\ i18n = NoI18n

SpecScenario == InitScenario /\ [][Next]_vars

\* The component on a page of well-formed sections that configures its
\* translations.
InitTranslations ==
  /\ exitThisPage = NoExitThisPage
  /\ markup \in {m \in Markups : \A s \in DOMAIN m : m[s].shape = "ok"}
  /\ config \in {[Accordion_defaults EXCEPT !.i18n = i] : i \in Translations}
  /\ sections = [s \in DOMAIN markup |-> MarkupSection(markup[s])]
  /\ showAll = NoShowAll
  /\ browserSupportsSessionStorage = FALSE
  /\ sessionStorage = [k \in StoreKeys |-> Null]
  /\ instance = "none"
  /\ calls = <<>>
  /\ last = NoLast
  /\ i18n = NoI18n

SpecTranslations == InitTranslations /\ [][Next]_vars

\* A second accordion shares the session's store: an instance of the same
\* class on this page or on another page of the session.  Its root element's
\* id is the first accordion's (both pages use the same id, or neither root
\* has an id attribute and `${this.$module.id}` is empty for both) or its own.
OtherModuleIds == {ModuleId, "other"}

\* The second accordion's aria-controls for its section of the given index.
OtherContentId(moduleId, index) == <<moduleId, index + 1>>

\* storeState of the second accordion, for its section of index s - 1 whose
\* button has aria-expanded = contentState.
OtherStoreState(moduleId, s, contentState) ==
  /\ instance = "live"
  /\ sessionStorage' = [sessionStorage EXCEPT ![OtherContentId(moduleId, s - 1)] = contentState]
  /\ calls' = <<Call("setItem", OtherContentId(moduleId, s - 1), contentState, TRUE)>>
  /\ last' = [NoLast EXCEPT !.op = "otherStoreState", !.section = s]
  /\ UNCHANGED <<exitThisPage, markup, config, sections, showAll, browserSupportsSessionStorage, instance,
               i18n>>

NextShared ==
  \/ Next
  \/ \E moduleId \in OtherModuleIds, s \in SectionIds, contentState \in {"true", "false"} :
       OtherStoreState(moduleId, s, contentState)

\* A page of well-formed sections in a session where both accordions' keys are
\* absent from the store.
InitShared ==
  /\ exitThisPage = NoExitThisPage
  /\ markup \in {m \in Markups : \A s \in DOMAIN m : m[s].shape = "ok"}
  /\ config = Accordion_defaults
  /\ sections = [s \in DOMAIN markup |-> MarkupSection(markup[s])]
  /\ showAll = NoShowAll
  /\ browserSupportsSessionStorage = FALSE
  /\ sessionStorage =
       [k \in StoreKeys \cup {OtherContentId(moduleId, s - 1) :
                                moduleId \in OtherModuleIds, s \in SectionIds} |-> Null]
  /\ instance = "none"
  /\ calls = <<>>
  /\ last = NoLast
  /\ i18n = NoI18n

SpecShared == InitShared /\ [][NextShared]_vars

\* ------------------------------------------------- an I18n engine of its own
\* The engine is constructed over a table of plural forms of "key" and called
\* with lookup keys and options; the page has no accordion.
TranslationKeys == {"key", "key.one", "key.many", "key.other"}

TranslationText(k) ==
  CASE k = "key" -> Str("Sections")
    [] k = "key.one" -> Str("%{count} section")
    [] k = "key.many" -> Str("Many (%{count}) sections")
    [] k = "key.other" -> Str("%{count} sections")

TranslationTables ==
  {[k \in present |-> TranslationText(k)] : present \in SUBSET TranslationKeys}

\* The config argument of the constructor and the page's <html lang>.
I18nConfigs == {Undefined, Object([locale |-> Str("ru")])}
DocumentLangs == {"", "cy"}

Counts ==
  {Num(0), Num(1), Num(5), Num(-1), NumHalf(1), NotFinite("NaN")}

LookupKeys == {Str("key"), Str(""), Undefined}

OptionsValues ==
  {Undefined, EmptyObject, Object([count |-> Str("5")])}
    \cup {Object([count |-> count]) : count \in Counts}

\* The runtimes: without Intl.PluralRules for the locale, or with it and the
\* category it selects for the call's count; with or without Intl.NumberFormat.
Runtimes ==
  {[pluralRules |-> FALSE, numberFormat |-> n, select |-> "other"] : n \in BOOLEAN}
    \cup {[pluralRules |-> TRUE, numberFormat |-> n, select |-> c] :
            c \in {"one", "many", "other"}, n \in BOOLEAN}

InitI18n ==
  /\ exitThisPage = NoExitThisPage
  /\ markup = <<>>
  /\ config = Accordion_defaults
  /\ sections = <<>>
  /\ showAll = NoShowAll
  /\ browserSupportsSessionStorage = FALSE
  /\ sessionStorage = [k \in StoreKeys |-> Null]
  /\ instance = "none"
  /\ calls = <<>>
  /\ last = NoLast
  /\ \E translations \in TranslationTables, i18nConfig \in I18nConfigs,
        documentLang \in DocumentLangs :
       i18n = [engine |-> I18n(translations, i18nConfig, documentLang), call |-> NoCall]

\* A script calls i18n.t(lookupKey, options) on the page's engine; again tells
\* whether the call repeats the one before it (same runtime, key and options).
Translate(runtime, lookupKey, options) ==
  \E done \in {I18n_tCall(i18n.engine, runtime, lookupKey, options)} :
     /\ i18n' = [i18n EXCEPT
                   !.engine = done.this,
                   !.call = [runtime |-> runtime, lookupKey |-> lookupKey, options |-> options,
                             result |-> done.result,
                             made |-> TRUE,
                             again |-> /\ i18n.call.made
                                       /\ i18n.call.runtime = runtime
                                       /\ i18n.call.lookupKey = lookupKey
                                       /\ i18n.call.options = options]]
     /\ UNCHANGED <<exitThisPage, markup, config, sections, showAll, browserSupportsSessionStorage,
                    sessionStorage, instance, calls, last>>

NextI18n ==
  \E runtime \in Runtimes, lookupKey \in LookupKeys, options \in OptionsValues :
    Translate(runtime, lookupKey, options)

SpecI18n == InitI18n /\ [][NextI18n]_vars

\* ------------------------------------------ an engine of strings with markers
\* The engine has one translation string, under "greeting", and is called
\* with options that give some of the names of its markers.
PlaceholderStrings ==
  {"Hello, %{name}!", "%{n} items", "%{aa}/%{bb}", "%{aa} and %{bb}", "No markers"}

PlaceholderNames == {"name", "n", "aa", "bb"}

\* The values an option can have: strings, numbers, booleans and undefined.
PlaceholderValues == {Str("Amara"), Num(1234), NumHalf(1), Bool(FALSE), Bool(TRUE), Undefined}

\* No options, or an object that gives one value to some of the names.
PlaceholderOptions ==
  {Undefined}
    \cup {Object([name \in names |-> value]) :
            names \in SUBSET PlaceholderNames, value \in PlaceholderValues}

InitPlaceholders ==
  /\ exitThisPage = NoExitThisPage
  /\ markup = <<>>
  /\ config = Accordion_defaults
  /\ sections = <<>>
  /\ showAll = NoShowAll
  /\ browserSupportsSessionStorage = FALSE
  /\ sessionStorage = [k \in StoreKeys |-> Null]
  /\ instance = "none"
  /\ calls = <<>>
  /\ last = NoLast
  /\ \E translationString \in PlaceholderStrings, documentLang \in {"", "ru"} :
       i18n = [engine |-> I18n([greeting |-> Str(translationString)], Undefined, documentLang),
               call |-> NoCall]

NextPlaceholders ==
  \E numberFormat \in BOOLEAN, options \in PlaceholderOptions :
    Translate([pluralRules |-> FALSE, numberFormat |-> numberFormat, select |-> "other"],
              Str("greeting"), options)

SpecPlaceholders == InitPlaceholders /\ [][NextPlaceholders]_vars

\* --------------------------------------------------- the fallback plural rules
\* The engine has a locale of one of the nine rule families, a regional
\* locale (en-GB, pt-PT, pt-BR) or one of no family (tlh), and selects the
\* plural form of a count by the fallback rules.
FamilyLocales == {"ar", "zh", "fr", "en", "ga", "ru", "gd", "es", "cy"}

\* The counts: 0 to MaxCount, and numbers around a million for the Spanish
\* rule.
RuleCounts == 0..MaxCount \cup {999999, 1000000, 1000001, 2000000}

InitPluralRules ==
  /\ exitThisPage = NoExitThisPage
  /\ markup = <<>>
  /\ config = Accordion_defaults
  /\ sections = <<>>
  /\ showAll = NoShowAll
  /\ browserSupportsSessionStorage = FALSE
  /\ sessionStorage = [k \in StoreKeys |-> Null]
  /\ instance = "none"
  /\ calls = <<>>
  /\ last = NoLast
  /\ \E locale \in FamilyLocales \cup {"en-GB", "pt-PT", "pt-BR", "tlh"} :
       i18n = [engine |-> I18n(<<>>, Object([locale |-> Str(locale)]), ""), call |-> NoCall]

\* i18n.selectPluralFormUsingFallbackRules(count) on the page's engine.
SelectPluralForm(count) ==
  /\ i18n' = [i18n EXCEPT !.call =
                [count |-> count, result |-> selectPluralFormUsingFallbackRules(i18n.engine, count),
                 made |-> TRUE]]
  /\ UNCHANGED <<exitThisPage, markup, config, sections, showAll, browserSupportsSessionStorage,
                 sessionStorage, instance, calls, last>>

\* The counts and their negatives, and some counts that are not integers.
NextPluralRules ==
  \/ \E n \in RuleCounts : SelectPluralForm(Num(n))
  \/ \E n \in RuleCounts : SelectPluralForm(Num(-n))
  \/ \E v \in -3..2 : SelectPluralForm(NumHalf(v))

SpecPluralRules == InitPluralRules /\ [][NextPluralRules]_vars

\* ------------------------------------------------- the locale of an engine
\* The page has a language attribute that scripts can change; engines are
\* constructed on it, with or without a locale option, and called.  i18n keeps
\* the document's language and what the engine was constructed with.
LocaleConfigs ==
  {Undefined, EmptyObject, Object([locale |-> Str("")]), Object([locale |-> Str("fr")])}

LocaleDocumentLangs == {"", "cy", "ru", "en-GB"}

LocaleTranslations ==
  [k \in {"key.one", "key.many", "key.other"} |-> TranslationText(k)]

InitLocale ==
  /\ exitThisPage = NoExitThisPage
  /\ markup = <<>>
  /\ config = Accordion_defaults
  /\ sections = <<>>
  /\ showAll = NoShowAll
  /\ browserSupportsSessionStorage = FALSE
  /\ sessionStorage = [k \in StoreKeys |-> Null]
  /\ instance = "none"
  /\ calls = <<>>
  /\ last = NoLast
  /\ \E documentLang \in LocaleDocumentLangs :
       i18n = [engine |-> Null, documentLang |-> documentLang, call |-> NoCall,
               constructed |-> FALSE,
               constructedWith |-> [config |-> Undefined, documentLang |-> ""]]

\* new I18n(translations, config)
Construct(i18nConfig) ==
  /\ i18n' = [i18n EXCEPT !.engine = I18n(LocaleTranslations, i18nConfig, i18n.documentLang),
                          !.call = NoCall,
                          !.constructed = TRUE,
                          !.constructedWith = [config |-> i18nConfig,
                                               documentLang |-> i18n.documentLang]]
  /\ UNCHANGED <<exitThisPage, markup, config, sections, showAll, browserSupportsSessionStorage,
                 sessionStorage, instance, calls, last>>

\* document.documentElement.lang = documentLang, by a script of the page.
SetDocumentLang(documentLang) ==
  /\ documentLang # i18n.documentLang
  /\ i18n' = [i18n EXCEPT !.documentLang = documentLang]
  /\ UNCHANGED <<exitThisPage, markup, config, sections, showAll, browserSupportsSessionStorage,
                 sessionStorage, instance, calls, last>>

NextLocale ==
  \/ \E i18nConfig \in LocaleConfigs : Construct(i18nConfig)
  \/ \E documentLang \in LocaleDocumentLangs : SetDocumentLang(documentLang)
  \/ /\ i18n.constructed
     /\ \E count \in {Num(0), Num(1), Num(5)} :
          Translate([pluralRules |-> FALSE, numberFormat |-> FALSE, select |-> "other"],
                    Str("key"), Object([count |-> count]))

SpecLocale == InitLocale /\ [][NextLocale]_vars

\* ---------------------------------------------------------- exit this page
\* The page has one ExitThisPage component, constructed; it has no accordion.
InitExitThisPage ==
  /\ exitThisPage = NoExitThisPage
  /\ markup = <<>>
  /\ config = Accordion_defaults
  /\ sections = <<>>
  /\ showAll = NoShowAll
  /\ browserSupportsSessionStorage = FALSE
  /\ sessionStorage = [k \in StoreKeys |-> Null]
  /\ instance = "none"
  /\ calls = <<>>
  /\ last = NoLast
  /\ i18n = NoI18n

\* A keyup event reaches the document's listener; the op tells whether the
\* handler went on to exitPage.
Keyup(event) ==
  /\ exitThisPage.nextTimerId <= MaxTimerId
  /\ exitThisPage' = handleKeypress(exitThisPage, event)
  /\ exitThisPage'.overlays <= MaxOverlays
  /\ last' = [NoLast EXCEPT !.op =
                IF /\ event.key = "Shift" /\ ~exitThisPage.lastKeyWasModified
                   /\ exitThisPage.keypressCounter + 1 >= 3
                  THEN "keyup: exitPage" ELSE "keyup"]
  /\ UNCHANGED <<markup, config, sections, showAll, browserSupportsSessionStorage,
                 sessionStorage, instance, calls, i18n>>

\* A click on the button or the skiplink: handleClick.
Click ==
  /\ exitThisPage' = exitPage(exitThisPage)
  /\ exitThisPage'.overlays <= MaxOverlays
  /\ last' = [NoLast EXCEPT !.op = "click"]
  /\ UNCHANGED <<markup, config, sections, showAll, browserSupportsSessionStorage,
                 sessionStorage, instance, calls, i18n>>

\* A pending timeout elapses and the window runs its callback.
Timeout(timer) ==
  /\ timer \in exitThisPage.timers
  /\ exitThisPage.nextTimerId <= MaxTimerId
  /\ LET e == [exitThisPage EXCEPT !.timers = @ \ {timer}]
     IN exitThisPage' = IF timer.callback = "resetKeypressTimer" THEN resetKeypressTimer(e)
                        ELSE [e EXCEPT !.updateSpan = ""]
  /\ last' = [NoLast EXCEPT !.op = "timeout: " \o timer.callback]
  /\ UNCHANGED <<markup, config, sections, showAll, browserSupportsSessionStorage,
                 sessionStorage, instance, calls, i18n>>

\* The window's pageshow listener: resetPage. The event is dispatched when the
\* document is shown, on its load or on its return from the history after the
\* navigation that exitPage started, so the window is at the page's own
\* address when the listener runs.
PageShow ==
  /\ exitThisPage' = resetPage([exitThisPage EXCEPT !.location = Null])
  /\ last' = [NoLast EXCEPT !.op = "pageshow"]
  /\ UNCHANGED <<markup, config, sections, showAll, browserSupportsSessionStorage,
                 sessionStorage, instance, calls, i18n>>

\* A script of the page calls the public method resetPage() of the component;
\* the window's location is what it was.
ResetPage ==
  /\ exitThisPage' = resetPage(exitThisPage)
  /\ last' = [NoLast EXCEPT !.op = "resetPage"]
  /\ UNCHANGED <<markup, config, sections, showAll, browserSupportsSessionStorage,
                 sessionStorage, instance, calls, i18n>>

NextExitThisPage ==
  \/ \E key \in {"Shift", "a"}, shiftKey \in BOOLEAN :
       Keyup([key |-> key, shiftKey |-> shiftKey])
  \/ Click
  \/ \E timer \in exitThisPage.timers : Timeout(timer)
  \/ PageShow
  \/ ResetPage

SpecExitThisPage == InitExitThisPage /\ [][NextExitThisPage]_vars

\* ------------------------------------------------------------------ claims
AllSectionsExpanded == \A s \in SectionIds : sections[s].expanded
MarkupExpanded == [s \in DOMAIN markup |-> markup[s].expanded]
\* setExpanded acts on section s (it finds the icon, text, button and content).
CanSetExpanded(s) == sections[s].built /\ HasContent(s)

\* C1: in every state of an initialised accordion the aggregate control shows
\* "expanded" if and only if every section is expanded.
C1_AggregateIffAllExpanded ==
  instance = "live" => (showAll.ariaExpanded = "true" <=> AllSectionsExpanded)

\* C2 as stated: when toggleAll returns, every section has expanded = nowOpen,
\* nowOpen being the negation of allOpen before the call.
C2_ToggleAllSetsEverySection ==
  (instance = "live" /\ last.op = "toggleAll" /\ ~last.threw)
    => \A s \in SectionIds : sections[s].expanded = last.nowExpanded

\* C2 amended: when toggleAll returns, every section that has all the
\* sub-elements setExpanded looks up has expanded = nowOpen, and a section
\* lacking one keeps the expanded value it had.
C2_ToggleAllSetsWellFormedSections ==
  [][(instance = "live" /\ last'.op = "toggleAll" /\ ~last'.threw)
       => \A s \in SectionIds :
            sections'[s].expanded = IF CanSetExpanded(s) THEN last'.nowExpanded
                                    ELSE sections[s].expanded]_vars

C2_Witness ==
  /\ instance = "live" /\ last.op = "toggleAll" /\ ~last.threw
  /\ \E s \in SectionIds : WellFormed(s) /\ sections[s].expanded = last.nowExpanded
  /\ \E s \in SectionIds : ~WellFormed(s) /\ sections[s].expanded # last.nowExpanded

\* C3 as stated: the second of two toggleSection(s) in succession leaves every
\* section's expanded value as it was before the first, and a single
\* toggleSection(s) flips s and changes no other section.
C3_ToggleSectionFlipsAndTwiceRestores ==
  last.op = "toggleSection"
    => IF last.twice
         THEN Expanded = last.before
         ELSE \A x \in SectionIds :
                sections[x].expanded =
                  IF x = last.section THEN ~last.before[x] ELSE last.before[x]

\* C3 amended: the second of two toggleSection(s) in succession leaves every
\* section's expanded value as it was before the first; a single
\* toggleSection(s) changes the expanded value of no section but s, and flips
\* s when s has all the sub-elements setExpanded looks up (otherwise s stays
\* as it is).
C3_ToggleSectionTwiceRestores ==
  last.op = "toggleSection"
    => IF last.twice
         THEN Expanded = last.before
         ELSE \A x \in SectionIds :
                sections[x].expanded =
                  IF x = last.section /\ CanSetExpanded(x) THEN ~last.before[x]
                  ELSE last.before[x]

C3_Witness ==
  /\ last.op = "toggleSection" /\ last.twice /\ WellFormed(last.section)
  /\ Len(markup) >= 2
  /\ \E x \in SectionIds : sections[x].expanded
  /\ \E x \in SectionIds : ~sections[x].expanded

\* C4: with rememberExpanded and a store the probe finds available, a section
\* that is collapsed in the markup and was expanded and persisted (the store
\* holds "true" under its content id when the page is loaded again) is
\* expanded after the fresh initialize.
C4_PersistedExpansionIsRestored ==
  [][(instance = "none" /\ last'.op = "initialize" /\ instance' = "live"
        /\ browserSupportsSessionStorage' /\ config'.rememberExpanded)
       => \A s \in SectionIds :
            (WellFormed(s)' /\ ~markup[s].expanded /\ ~sections[s].expanded
               /\ sessionStorage[ContentId(s - 1)] = "true")
              => sections'[s].expanded]_vars

C4_Witness ==
  /\ last.op = "initialize" /\ instance = "live"
  /\ browserSupportsSessionStorage /\ config.rememberExpanded
  /\ \E s \in SectionIds :
       /\ WellFormed(s) /\ ~markup[s].expanded /\ sections[s].expanded
       /\ sessionStorage[ContentId(s - 1)] = "true"

\* C5: with rememberExpanded = false a fresh initialize leaves every section
\* in the expanded state of the markup, whatever the store holds.
C5_NoRestoreWithoutRememberExpanded ==
  (last.op = "initialize" /\ ~config.rememberExpanded) => Expanded = MarkupExpanded

C5_Witness ==
  /\ last.op = "initialize" /\ instance = "live" /\ ~config.rememberExpanded
  /\ browserSupportsSessionStorage
  /\ \E s \in SectionIds :
       /\ WellFormed(s) /\ ~markup[s].expanded /\ ~sections[s].expanded
       /\ sessionStorage[ContentId(s - 1)] = "true"

\* C6: a toggleSection during which the store's setItem throws does not throw
\* to its caller.
C6_ToggleSectionNeverThrows == last.op = "toggleSection" => ~last.threw

\* C7: after a toggleAll, whether it returned or threw, every section that
\* setExpanded can act on has expanded = nowOpen: no state shows only a prefix
\* of the sections updated.
C7_ToggleAllIsAtomic ==
  (instance = "live" /\ last.op = "toggleAll")
    => \A s \in SectionIds : WellFormed(s) => sections[s].expanded = last.nowExpanded

\* C8: an initialize whose probe succeeded does not throw when the store's
\* getItem throws for a section: every section with a header has its click
\* handler and the aggregate control's text is set.
C8_InitializeContainsReadFailure ==
  (last.op = "initialize" /\ browserSupportsSessionStorage)
    => /\ ~last.threw
       /\ \A s \in SectionIds : HasHeader(s) => sections[s].wired
       /\ showAll.text # ""

\* The probe of the last initialize failed: one of its calls threw, or the
\* value it read back is not the sentinel.
ProbeFailed ==
  /\ last.op = "initialize" /\ calls # <<>>
  /\ \/ \E i \in DOMAIN calls : i <= 3 /\ ~calls[i].ok
     \/ Len(calls) >= 2 /\ calls[2].ok /\ calls[2].value # testString

\* C9: a failed probe leaves browserSupportsSessionStorage false, and a
\* component whose browserSupportsSessionStorage is false makes no storage
\* call but the probe's own: its toggleSection, toggleAll and beforematch
\* handlers make none, and its initialize none on a section's key.
C9_FailedProbeDisablesPersistence ==
  /\ ProbeFailed => ~browserSupportsSessionStorage
  /\ (instance = "live" /\ ~browserSupportsSessionStorage)
       => IF last.op = "initialize"
            THEN Len(calls) <= 3 /\ \A i \in DOMAIN calls : calls[i].key = SentinelKey
            ELSE calls = <<>>

C9_Witness ==
  /\ instance = "live" /\ ~browserSupportsSessionStorage /\ config.rememberExpanded
  /\ last.op = "toggleAll" /\ calls = <<>>
  /\ \E s \in SectionIds : WellFormed(s) /\ sections[s].ariaExpanded = "true"

\* C10: after the probe the sentinel key is absent from the store.
C10_ProbeRemovesSentinel ==
  (last.op = "initialize" /\ calls # <<>>) => sessionStorage[SentinelKey] = Null

\* C11: after an initialize that ran to its end with rememberExpanded and a
\* store the probe found available, a well-formed section is expanded iff the
\* store holds "true" under its content id, or holds nothing there and the
\* markup has the section expanded.
C11_InitialStateFromStoreOrMarkup ==
  (last.op = "initialize" /\ instance = "live"
     /\ browserSupportsSessionStorage /\ config.rememberExpanded)
    => \A s \in SectionIds :
         WellFormed(s) =>
           sections[s].expanded =
             IF sessionStorage[ContentId(s - 1)] # Null
               THEN sessionStorage[ContentId(s - 1)] = "true"
               ELSE markup[s].expanded

C11_Witness ==
  /\ last.op = "initialize" /\ instance = "live"
  /\ browserSupportsSessionStorage /\ config.rememberExpanded
  /\ \E s \in SectionIds :
       /\ WellFormed(s) /\ markup[s].expanded /\ ~sections[s].expanded
       /\ sessionStorage[ContentId(s - 1)] = "false"
  /\ \E s \in SectionIds :
       /\ WellFormed(s) /\ markup[s].expanded /\ sections[s].expanded
       /\ sessionStorage[ContentId(s - 1)] = Null

\* C12: in an accordion with a section lacking a sub-element, a toggleSection
\* of that section and a toggleAll do not throw, leave the section's expanded
\* value as the markup has it, and leave the aggregate control showing
\* "expanded" iff every section is expanded.
C12_MalformedSectionIsInert ==
  (/\ instance = "live"
   /\ \E s \in SectionIds : ~WellFormed(s)
   /\ \/ last.op = "toggleAll"
      \/ last.op = "toggleSection" /\ ~WellFormed(last.section))
    => /\ ~last.threw
       /\ \A s \in SectionIds : ~WellFormed(s) => sections[s].expanded = markup[s].expanded
       /\ showAll.ariaExpanded = "true" <=> AllSectionsExpanded

\* C13 as stated: a beforematch event whose target lies in section s leaves s
\* expanded, every other section as it was, and the aggregate control showing
\* "expanded" iff every section is expanded.
C13_BeforeMatchExpandsSection ==
  (instance = "live" /\ last.op = "beforematch")
    => /\ sections[last.section].expanded
       /\ \A x \in SectionIds : x # last.section => sections[x].expanded = last.before[x]
       /\ showAll.ariaExpanded = "true" <=> AllSectionsExpanded

\* C13 amended: a beforematch event whose target lies in a section s that has
\* all the sub-elements setExpanded looks up leaves s expanded, every other
\* section as it was, and the aggregate control showing "expanded" iff every
\* section is expanded; when s lacks a sub-element the event changes no
\* section and not the aggregate control.
C13_BeforeMatchExpandsWellFormedSection ==
  [][(instance = "live" /\ last'.op = "beforematch")
       => IF CanSetExpanded(last'.section)
            THEN /\ sections'[last'.section].expanded
                 /\ \A x \in SectionIds :
                      x # last'.section => sections'[x].expanded = sections[x].expanded
                 /\ showAll'.ariaExpanded = "true"
                      <=> \A x \in SectionIds : sections'[x].expanded
            ELSE UNCHANGED <<sections, showAll>>]_vars

C13_Witness ==
  /\ instance = "live" /\ last.op = "beforematch" /\ WellFormed(last.section)
  /\ ~last.before[last.section] /\ sections[last.section].expanded
  /\ \E x \in SectionIds : x # last.section /\ ~sections[x].expanded
  /\ showAll.ariaExpanded = "false"

\* C14: the constructor run on a container without sections builds no
\* aggregate control, attaches no handler, makes no storage call (the probe
\* included) and does not throw.
C14_NoSectionsIsInert ==
  (last.op = "initialize" /\ Len(markup) = 0)
    => /\ instance = "inert" /\ ~last.threw
       /\ showAll = NoShowAll
       /\ calls = <<>>
       /\ ~ENABLED ToggleAll

\* The constructor passed its first guard (it merged the configuration) and
\* found no section.
C14_Witness ==
  /\ last.op = "initialize" /\ Len(markup) = 0 /\ ~config.rememberExpanded
  /\ instance = "inert" /\ calls = <<>>

\* C15: in the scenario, after section 2 was toggled it alone is expanded and
\* the aggregate control reads "Show all sections"; after all sections were
\* then toggled the three are expanded and it reads "Hide all sections"; after
\* the page was then loaded and initialized again the three are expanded.
C15_EndToEndScenario ==
  /\ last.stage = 2
       => Expanded = <<FALSE, TRUE, FALSE>> /\ showAll.text = "Show all sections"
  /\ last.stage = 3
       => Expanded = <<TRUE, TRUE, TRUE>> /\ showAll.text = "Hide all sections"
  /\ last.stage = 5 => Expanded = <<TRUE, TRUE, TRUE>>

C15_Witness ==
  /\ last.stage = 5 /\ last.op = "initialize" /\ instance = "live"
  /\ Expanded = <<TRUE, TRUE, TRUE>>
  /\ \A s \in SectionIds : sessionStorage[ContentId(s - 1)] = "true"

\* C16: a setExpanded invocation (the one a beforematch event makes, to
\* expanded, or the one a toggleSection makes, to the negation of the section's
\* expanded class) either changes nothing of the sections and the aggregate
\* control, or completes the transition: the section's aria-expanded, toggle
\* text, aria-label, content visibility, expanded class and chevron show the
\* new value and the aggregate control shows whether every section is
\* expanded; also when a translation look-up throws.
C16_SetExpandedIsAllOrNothing ==
  [][(instance = "live" /\ last'.op \in {"beforematch", "toggleSection"})
       => LET s == last'.section
              expanded == IF last'.op = "beforematch" THEN TRUE ELSE ~sections[s].expanded
              allOpen == \A x \in SectionIds : sections'[x].expanded
          IN \/ UNCHANGED <<sections, showAll>>
             \/ /\ sections'[s] =
                     [sections[s] EXCEPT
                        !.ariaExpanded = BoolString(expanded),
                        !.toggleText = config.i18n[IF expanded THEN "hideSection"
                                                   ELSE "showSection"],
                        !.ariaLabel = config.i18n[IF expanded THEN "hideSectionAriaLabel"
                                                  ELSE "showSectionAriaLabel"],
                        !.hidden = ~expanded,
                        !.expanded = expanded,
                        !.chevronDown = ~expanded]
                /\ \A x \in SectionIds : x # s => sections'[x] = sections[x]
                /\ showAll' =
                     [showAll EXCEPT
                        !.ariaExpanded = BoolString(allOpen),
                        !.text = config.i18n[IF allOpen THEN "hideAllSections"
                                             ELSE "showAllSections"],
                        !.chevronDown = ~allOpen]]_vars

\* C17: the keys of distinct sections differ, so a handler that persists one
\* section changes the store entry of no other section: a toggleSection(s) of
\* this accordion changes no entry but s's, and a storeState of another
\* accordion sharing the store changes no entry of this accordion's sections.
C17_OneKeyPerSection ==
  [][/\ last'.op = "toggleSection"
          => \A k \in DOMAIN sessionStorage :
               k # ContentId(last'.section - 1) => sessionStorage'[k] = sessionStorage[k]
     /\ last'.op = "otherStoreState"
          => \A s \in SectionIds :
               sessionStorage'[ContentId(s - 1)] = sessionStorage[ContentId(s - 1)]]_vars

\* The storage calls of the last handler wrote only "true" or "false".
WritesAreBooleanStrings ==
  \A i \in DOMAIN calls : calls[i].op = "setItem" => calls[i].value \in {"true", "false"}

\* C18 as stated: with rememberExpanded and an available store, after a
\* toggleSection(s) the entry of s, and after a toggleAll the entry of every
\* section, is the string of the section's expanded value; every value written
\* is "true" or "false".
C18_StoreHoldsExpandedOfEverySection ==
  (instance = "live" /\ browserSupportsSessionStorage /\ config.rememberExpanded
     /\ ~last.threw /\ last.op \in {"toggleSection", "toggleAll"})
    => /\ \A s \in SectionIds :
            (last.op = "toggleAll" \/ s = last.section)
              => sessionStorage[ContentId(s - 1)] = BoolString(sections[s].expanded)
       /\ WritesAreBooleanStrings

\* C18 amended: the same for the sections that have all the sub-elements
\* setExpanded looks up; the entry of a section lacking one is not written.
C18_StoreHoldsExpandedOfWellFormedSections ==
  (instance = "live" /\ browserSupportsSessionStorage /\ config.rememberExpanded
     /\ ~last.threw /\ last.op \in {"toggleSection", "toggleAll"})
    => /\ \A s \in SectionIds :
            (last.op = "toggleAll" \/ s = last.section)
              => IF CanSetExpanded(s)
                   THEN sessionStorage[ContentId(s - 1)] = BoolString(sections[s].expanded)
                   ELSE \A i \in DOMAIN calls : calls[i].key # ContentId(s - 1)
       /\ WritesAreBooleanStrings

C18_Witness ==
  /\ instance = "live" /\ browserSupportsSessionStorage /\ config.rememberExpanded
  /\ last.op = "toggleAll" /\ ~last.threw /\ ~last.nowExpanded /\ Len(calls) = 2
  /\ \A s \in SectionIds :
       WellFormed(s) /\ ~sections[s].expanded /\ sessionStorage[ContentId(s - 1)] = "false"

\* C19: a component with rememberExpanded = false makes no storage call in
\* its toggleSection, toggleAll and beforematch handlers, so that no section
\* entry of the store is created, changed or removed.
C19_NoWritesWithoutRememberExpanded ==
  (~config.rememberExpanded /\ last.op \in {"toggleSection", "toggleAll", "beforematch"})
    => calls = <<>>

C19_Witness ==
  /\ instance = "live" /\ ~config.rememberExpanded /\ browserSupportsSessionStorage
  /\ last.op = "toggleSection" /\ WellFormed(last.section)
  /\ sections[last.section].expanded
  /\ sessionStorage[ContentId(last.section - 1)] = "false"

\* C20: a call t(key, {count}) with a finite numeric count throws whenever the
\* translations have neither the form of key for the selected plural category
\* (the one Intl.PluralRules selects, or the fallback rule of the locale when
\* the runtime has none) nor key.other.
C20_MissingOtherFormThrows ==
  (/\ i18n.call.made
   /\ ~Falsy(i18n.call.lookupKey)
   /\ hasOwnProperty(i18n.call.options, "count")
   /\ i18n.call.options.props["count"].type = "number"
   /\ i18n.call.options.props["count"].isFinite)
    => LET key == i18n.call.lookupKey.v
           count == i18n.call.options.props["count"]
           category == IF i18n.call.runtime.pluralRules THEN i18n.call.runtime.select
                       ELSE selectPluralFormUsingFallbackRules(i18n.engine, count)
       IN ((key \o "." \o category) \notin DOMAIN i18n.engine.translations
             /\ (key \o ".other") \notin DOMAIN i18n.engine.translations)
            => i18n.call.result.threw

\* Only key.one is present, the count is 5 and the call threw.
C20_Witness ==
  /\ i18n.call.made
  /\ DOMAIN i18n.engine.translations = {"key.one"}
  /\ i18n.call.lookupKey = Str("key")
  /\ i18n.call.options = Object([count |-> Num(5)])
  /\ i18n.call.result.threw

\* The last call to t had a lookup key and a numeric count.
Counted ==
  /\ i18n.call.made
  /\ ~Falsy(i18n.call.lookupKey)
  /\ hasOwnProperty(i18n.call.options, "count")
  /\ i18n.call.options.props["count"].type = "number"

CallCount == i18n.call.options.props["count"]

\* The plural category selected for the finite count of the last call: the one
\* Intl.PluralRules selects, or the fallback rule's when the runtime has none.
SelectedCategory ==
  IF i18n.call.runtime.pluralRules THEN i18n.call.runtime.select
  ELSE selectPluralFormUsingFallbackRules(i18n.engine, CallCount)

\* C21: when the form of key for the selected plural category is missing from
\* the translations and key.other is there, t(key, {count}) with a finite
\* count does not throw and returns the text of key.other (with the count put
\* in its placeholder).
C21_MissingFormFallsBackToOther ==
  (/\ Counted
   /\ CallCount.isFinite
   /\ (i18n.call.lookupKey.v \o "." \o SelectedCategory) \notin DOMAIN i18n.engine.translations
   /\ (i18n.call.lookupKey.v \o ".other") \in DOMAIN i18n.engine.translations)
    => /\ ~i18n.call.result.threw
       /\ i18n.call.result =
            replacePlaceholders(i18n.engine, i18n.call.runtime,
                                i18n.engine.translations[i18n.call.lookupKey.v \o ".other"].v,
                                i18n.call.options)

\* Only key.one and key.other are present, the Russian fallback rule maps 5 to
\* many, and the call returned the other form.
C21_Witness ==
  /\ Counted
  /\ DOMAIN i18n.engine.translations = {"key.one", "key.other"}
  /\ i18n.engine.locale = "ru"
  /\ ~i18n.call.runtime.pluralRules
  /\ i18n.call.lookupKey = Str("key")
  /\ CallCount = Num(5)
  /\ SelectedCategory = "many"
  /\ i18n.call.result = Return("5 sections")

\* C22: for a count that is a number and not finite (NaN, Infinity) the plural
\* category is other and the other form is mandatory: t(key, {count}) returns
\* the text of key.other when the translations have it, and throws when they
\* do not.
C22_NonFiniteCountNeedsOther ==
  (Counted /\ ~CallCount.isFinite)
    => IF (i18n.call.lookupKey.v \o ".other") \in DOMAIN i18n.engine.translations
         THEN i18n.call.result =
                replacePlaceholders(i18n.engine, i18n.call.runtime,
                                    i18n.engine.translations[i18n.call.lookupKey.v \o ".other"].v,
                                    i18n.call.options)
         ELSE i18n.call.result.threw

\* The suffixed key t looks up for the count of the last call: the form of the
\* selected category when the translations have it, else the other form; the
\* other form for a count that is not finite.
SuffixedKey ==
  IF CallCount.isFinite
       /\ (i18n.call.lookupKey.v \o "." \o SelectedCategory) \in DOMAIN i18n.engine.translations
    THEN i18n.call.lookupKey.v \o "." \o SelectedCategory
  ELSE i18n.call.lookupKey.v \o ".other"

\* C23: whenever options.count is a number, 0 included, a call t(key, options)
\* that returns gives the text stored under the suffixed key key.<category>,
\* and never the text of the unsuffixed key.
C23_CountRewritesLookupKey ==
  (Counted /\ ~i18n.call.result.threw)
    => /\ SuffixedKey \in DOMAIN i18n.engine.translations
       /\ i18n.call.result =
            replacePlaceholders(i18n.engine, i18n.call.runtime,
                                i18n.engine.translations[SuffixedKey].v, i18n.call.options)
       /\ i18n.call.lookupKey.v \in DOMAIN i18n.engine.translations
            => i18n.call.result.value # i18n.engine.translations[i18n.call.lookupKey.v].v

\* C24: for a non-empty lookup key that the translations do not have, and no
\* numeric count, t returns the lookup key itself and does not throw.
C24_MissingKeyIsReturnedVerbatim ==
  (/\ i18n.call.made
   /\ ~Falsy(i18n.call.lookupKey)
   /\ ~Counted
   /\ i18n.call.lookupKey.v \notin DOMAIN i18n.engine.translations)
    => i18n.call.result = Return(i18n.call.lookupKey.v)

\* The translations have forms of key and not key itself, which a call
\* without options got back.
C24_Witness ==
  /\ i18n.call.made
  /\ DOMAIN i18n.engine.translations = {"key.one", "key.other"}
  /\ i18n.call.lookupKey = Str("key")
  /\ i18n.call.options = Undefined
  /\ i18n.call.result = Return("key")

\* C25: t throws when it is called with an empty or missing lookup key,
\* whatever the translations and the options.
C25_EmptyLookupKeyThrows ==
  (i18n.call.made /\ i18n.call.lookupKey \in {Str(""), Undefined})
    => i18n.call.result = Throw("i18n: lookup key missing")

\* A call with the empty key and a count, on translations that have every
\* form, threw.
C25_Witness ==
  /\ i18n.call.made
  /\ DOMAIN i18n.engine.translations = TranslationKeys
  /\ i18n.call.lookupKey = Str("")
  /\ i18n.call.options = Object([count |-> Num(1)])
  /\ i18n.call.result.threw

\* ------------------------------------------ markers, as the specification has them
\* A marker is "%{", a name of one character or more without "}", and "}".
RECURSIVE FirstIndexOf(_, _, _)
FirstIndexOf(str, ch, from) ==
  IF from > Len(str) THEN 0
  ELSE IF Char(str, from) = ch THEN from
  ELSE FirstIndexOf(str, ch, from + 1)

\* Where the marker that starts at i ends, or 0 when none starts there.
MarkerEnd(str, i) ==
  IF i + 3 > Len(str) \/ Char(str, i) # "%" \/ Char(str, i + 1) # "{" THEN 0
  ELSE FirstIndexOf(str, "}", i + 3)

MarkerStarts(str) == {i \in 1..Len(str) : MarkerEnd(str, i) # 0}

MarkerNames(str) == {SubSeq(str, i + 2, MarkerEnd(str, i) - 1) : i \in MarkerStarts(str)}

\* What a marker is replaced by: the value when it is a string, the number
\* (formatted for the locale, or coerced to a string) when it is a number, and
\* nothing when it is false or of another type.
MarkerText(engine, runtime, value) ==
  IF value.type = "string" THEN value.v
  ELSE IF value.type = "number"
    THEN IF runtime.numberFormat THEN format(engine, value)
         ELSE IF value.isFinite THEN NumberToString(value) ELSE value.name
  ELSE ""

\* The string with each of its markers replaced by the option of its name
\* (every name being a key of options).
RECURSIVE Substitute(_, _, _, _, _)
Substitute(engine, runtime, str, options, from) ==
  LET starts == {i \in MarkerStarts(str) : i >= from}
  IN IF starts = {} THEN SubSeq(str, from, Len(str))
     ELSE LET i == CHOOSE x \in starts : \A y \in starts : x <= y
              j == MarkerEnd(str, i)
          IN SubSeq(str, from, i - 1)
               \o MarkerText(engine, runtime, options.props[SubSeq(str, i + 2, j - 1)])
               \o Substitute(engine, runtime, str, options, j + 1)

\* The translation string the last call resolved (the one under "greeting").
Resolved == i18n.engine.translations[i18n.call.lookupKey.v].v

\* C26: for a resolved string with markers whose names are all keys of
\* options, t returns the string with each marker replaced by the value when
\* it is a string, by the formatted or string-coerced number when it is a
\* number, and by the empty string when it is false or of any other type.
C26_MarkersAreSubstitutedByType ==
  (/\ i18n.call.made
   /\ i18n.call.options.type = "object"
   /\ MarkerNames(Resolved) # {}
   /\ MarkerNames(Resolved) \subseteq DOMAIN i18n.call.options.props)
    => i18n.call.result =
         Return(Substitute(i18n.engine, i18n.call.runtime, Resolved, i18n.call.options, 1))

\* C27: when the resolved string has a marker, t throws if no options are
\* given and throws if the name of a marker is not a key of options; it does
\* not throw when every name is a key, whatever the values.
C27_UnreplaceableMarkerThrows ==
  (i18n.call.made /\ MarkerNames(Resolved) # {})
    => IF i18n.call.options.type # "object" THEN i18n.call.result.threw
       ELSE i18n.call.result.threw
              <=> ~(MarkerNames(Resolved) \subseteq DOMAIN i18n.call.options.props)

\* C28: every marker %{name} of the resolved string is recognised and replaced
\* on its own: when all the names are keys of options the call returns a
\* string without marker, also for markers that no whitespace separates and
\* for names of one character; and a string comes back unchanged only if it
\* has no marker.
C28_EveryMarkerIsReplaced ==
  (i18n.call.made /\ i18n.call.options.type = "object")
    => /\ MarkerNames(Resolved) \subseteq DOMAIN i18n.call.options.props
            => /\ ~i18n.call.result.threw
               /\ MarkerNames(i18n.call.result.value) = {}
       /\ (~i18n.call.result.threw /\ i18n.call.result.value = Resolved)
            => MarkerNames(Resolved) = {}

\* ------------------------------------- plural rule families, as the Glossary has them
\* The category of a non-negative integer n in the family of a language.
GlossaryCategory(language, n) ==
  CASE language = "ar" ->
         (CASE n \in {0} -> "zero" [] n \in {1} -> "one" [] n \in {2} -> "two"
            [] (n % 100) \in 3..10 -> "few"
            [] (n % 100) \in 11..99 -> "many"
            [] OTHER -> "other")
    [] language = "zh" -> "other"
    [] language = "fr" -> (IF n \in {0, 1} THEN "one" ELSE "other")
    [] language = "en" -> (IF n = 1 THEN "one" ELSE "other")
    [] language = "ga" ->
         (CASE n = 1 -> "one" [] n = 2 -> "two" [] n \in 3..6 -> "few"
            [] n \in 7..10 -> "many" [] OTHER -> "other")
    [] language = "ru" ->
         (CASE (n % 10) = 1 /\ (n % 100) # 11 -> "one"
            [] (n % 10) \in 2..4 /\ (n % 100) \notin 12..14 -> "few"
            [] (n % 10) \in ({0} \cup (5..9)) \/ (n % 100) \in 11..14 -> "many"
            [] OTHER -> "other")
    [] language = "gd" ->
         (CASE n \in {1, 11} -> "one" [] n \in {2, 12} -> "two"
            [] n \in (3..10) \cup (13..19) -> "few" [] OTHER -> "other")
    [] language = "es" ->
         (CASE n = 1 -> "one" [] n # 0 /\ n % 1000000 = 0 -> "many" [] OTHER -> "other")
    [] language = "cy" ->
         (CASE n = 0 -> "zero" [] n = 1 -> "one" [] n = 2 -> "two" [] n = 3 -> "few"
            [] n = 6 -> "many" [] OTHER -> "other")

\* C29: for every non-negative integer of the range, each fallback plural rule
\* (Arabic, Chinese, French, German, Irish, Russian, Scottish, Spanish, Welsh)
\* gives the category the Glossary gives for its family.
C29_FallbackRulesFollowGlossary ==
  (/\ i18n.call.made
   /\ i18n.engine.locale \in FamilyLocales
   /\ ~i18n.call.count.half /\ i18n.call.count.v >= 0)
    => i18n.call.result = GlossaryCategory(i18n.engine.locale, i18n.call.count.v)

\* The Russian rule gave many for 111, whose last digit is 1.
C29_Witness ==
  /\ i18n.call.made
  /\ i18n.engine.locale = "ru"
  /\ i18n.call.count = Num(111)
  /\ i18n.call.result = "many"

\* C30: the locale of an engine is resolved at its construction, in the order:
\* the locale option when one is given, else the language attribute of the
\* document when it is set, else "en"; it stays what it was resolved to when
\* the language of the document changes afterwards.
C30_LocaleIsResolvedAtConstruction ==
  i18n.constructed
    => LET given == i18n.constructedWith.config
           documentLang == i18n.constructedWith.documentLang
       IN i18n.engine.locale =
            IF given.type = "object" /\ "locale" \in DOMAIN given.props
                 /\ given.props["locale"].v # ""
              THEN given.props["locale"].v
            ELSE IF documentLang # "" THEN documentLang
            ELSE "en"

\* An engine constructed without locale option on a Welsh document, whose
\* language was then changed to Russian, selected the Welsh form of 5 (other;
\* the Russian rule gives many).
C30_Witness ==
  /\ i18n.constructed
  /\ i18n.constructedWith = [config |-> Undefined, documentLang |-> "cy"]
  /\ i18n.documentLang = "ru"
  /\ i18n.engine.locale = "cy"
  /\ i18n.call.made
  /\ i18n.call.options = Object([count |-> Num(5)])
  /\ i18n.call.result = Return("5 sections")

C32_FallbackUsesAbsFloor ==
  i18n.call.made
    => LET locale == i18n.engine.locale
           floor == i18n.call.count.v
           n == IF floor < 0 THEN -floor ELSE floor
       IN /\ i18n.call.result =
               (CASE locale \in {"pt-BR", "tlh"} -> "other"
                  [] locale = "en-GB" -> GlossaryCategory("en", n)
                  [] locale = "pt-PT" -> GlossaryCategory("es", n)
                  [] OTHER -> GlossaryCategory(locale, n))
          /\ ~i18n.call.count.half
               => i18n.call.result =
                    selectPluralFormUsingFallbackRules(i18n.engine, Num(-floor))

\* The English rule gave one for -1, through the prefix of en-GB.
C32_Witness ==
  /\ i18n.call.made
  /\ i18n.engine.locale = "en-GB"
  /\ i18n.call.count = Num(-1)
  /\ i18n.call.result = "one"

\* C37: the Russian fallback rule never gives other: for every count, which
\* abs(floor(count)) makes a non-negative integer, it gives one, few or many.
C37_RussianNeverGivesOther ==
  (i18n.call.made /\ i18n.engine.locale = "ru")
    => i18n.call.result \in {"one", "few", "many"}

\* The Russian rule gave many for 100.
C37_Witness ==
  /\ i18n.call.made
  /\ i18n.engine.locale = "ru"
  /\ i18n.call.count = Num(100)
  /\ i18n.call.result = "many"

\* C33: initialize only reads the section entries of the store: after the
\* construction, restoration of every section included, each section entry
\* has the value it had before, and none has appeared.
C33_InitializeLeavesSectionEntries ==
  [][(instance = "none" /\ instance' # "none")
       => \A s \in SectionIds :
            sessionStorage'[ContentId(s - 1)] = sessionStorage[ContentId(s - 1)]]_vars

\* After an initialize that restored a section from the store (the markup has
\* it collapsed, the store and the page expanded), another section has no
\* entry.
C33_Witness ==
  /\ last.op = "initialize" /\ instance = "live"
  /\ \E s \in SectionIds :
       /\ WellFormed(s) /\ ~markup[s].expanded /\ sections[s].expanded
       /\ sessionStorage[ContentId(s - 1)] = "true"
  /\ \E s \in SectionIds : sessionStorage[ContentId(s - 1)] = Null

\* C34: in every state after initialize (the component is live) the
\* representations of the state of a well-formed section agree: it has the
\* expanded class iff its button's aria-expanded is "true" iff its content is
\* not hidden iff its chevron lacks the down class iff its toggle text is the
\* hideSection text; so the value storeState reads (aria-expanded) is the value
\* isExpanded reads (the class).
C34_RepresentationsAgree ==
  instance = "live"
    => \A s \in SectionIds :
         WellFormed(s)
           => /\ sections[s].expanded <=> (sections[s].ariaExpanded = "true")
              /\ sections[s].expanded <=> ~sections[s].hidden
              /\ sections[s].expanded <=> ~sections[s].chevronDown
              /\ sections[s].expanded <=> (sections[s].toggleText = config.i18n.hideSection)

\* A click on the header of a well-formed section ended in the exception of t:
\* the toggle text and aria-expanded say expanded, the class and the content
\* say collapsed.
C34_ToggleTextAheadOfClass ==
  /\ instance = "live" /\ last.op = "toggleSection" /\ last.threw
  /\ WellFormed(last.section)
  /\ sections[last.section].toggleText = config.i18n.hideSection
  /\ sections[last.section].ariaExpanded = "true"
  /\ ~sections[last.section].expanded
  /\ sections[last.section].hidden

\* C35: an expansion by beforematch is not persisted: the handler makes no
\* storage call and leaves every store entry as it was; and an initialize on a
\* freshly loaded page, with rememberExpanded and a working store, gives every
\* well-formed section the stored value, or the markup's when there is none,
\* whatever beforematch had made of it.
C35_BeforeMatchIsNotPersisted ==
  [][/\ last'.op = "beforematch" => (sessionStorage' = sessionStorage /\ calls' = <<>>)
     /\ (instance = "none" /\ instance' = "live" /\ config'.rememberExpanded
           /\ browserSupportsSessionStorage')
          => \A s \in SectionIds :
               WellFormed(s)'
                 => sections'[s].expanded =
                      IF sessionStorage[ContentId(s - 1)] = Null THEN markup[s].expanded
                      ELSE sessionStorage[ContentId(s - 1)] = "true"]_vars

\* beforematch expanded a section that the store, in use, has as collapsed.
C35_Witness ==
  /\ last.op = "beforematch" /\ WellFormed(last.section)
  /\ ~last.before[last.section] /\ sections[last.section].expanded
  /\ config.rememberExpanded /\ browserSupportsSessionStorage
  /\ sessionStorage[ContentId(last.section - 1)] = "false"

\* No section carries the expanded class in world w.
NoSectionExpandedIn(w) == \A s \in SectionIds : ~w.sections[s].expanded

\* C36: of two toggleAll invocations in a row, made in any state of an
\* initialised accordion, one leaves every section collapsed; and a toggleAll
\* invoked while the aggregate control reads "Hide all sections" leaves every
\* section collapsed.
C36_ToggleAllAlternates ==
  instance = "live"
    => LET once == onShowOrHideAllToggle(World(0, FALSE))
           twice == onShowOrHideAllToggle(once)
       IN /\ NoSectionExpandedIn(once) \/ NoSectionExpandedIn(twice)
          /\ showAll.text = "Hide all sections" => NoSectionExpandedIn(once)

\* The same, for accordions whose sections all have their sub-elements.
C36_ToggleAllAlternatesWellFormed ==
  (instance = "live" /\ \A s \in SectionIds : WellFormed(s))
    => LET once == onShowOrHideAllToggle(World(0, FALSE))
           twice == onShowOrHideAllToggle(once)
       IN /\ NoSectionExpandedIn(once) \/ NoSectionExpandedIn(twice)
          /\ showAll.text = "Hide all sections" => NoSectionExpandedIn(once)

\* Only the malformed sections are collapsed and the control reads "Hide all".
C36_HideAllOverCollapsedSection ==
  /\ instance = "live" /\ showAll.text = "Hide all sections"
  /\ \E s \in SectionIds : WellFormed(s) /\ sections[s].expanded
  /\ \E s \in SectionIds : ~WellFormed(s) /\ ~sections[s].expanded

\* C38: when the third unmodified Shift keyup in a row has triggered exitPage,
\* keypressCounter is 0 and no keypress timeout is scheduled (so none can run
\* resetKeypressTimer after the exit); and in every state at most one keypress
\* timeout is pending.
C38_KeyboardExitLeavesNoTimer ==
  LET keypressTimers == {timer \in exitThisPage.timers : timer.callback = "resetKeypressTimer"}
  IN /\ last.op = "keyup: exitPage"
          => /\ exitThisPage.keypressCounter = 0
             /\ exitThisPage.keypressTimeoutId = 0
             /\ keypressTimers = {}
     /\ Cardinality(keypressTimers) <= 1

\* In every state at most one keypress timeout is pending, and it is the one
\* keypressTimeoutId names.
C38_AtMostOneKeypressTimeout ==
  \A timer \in exitThisPage.timers :
    timer.callback = "resetKeypressTimer" => timer.id = exitThisPage.keypressTimeoutId

\* A keypress timeout ran resetKeypressTimer, announcing the time-out, while
\* the overlay of the exit was up.
C38_TimedOutAfterExit ==
  /\ last.op = "timeout: resetKeypressTimer"
  /\ exitThisPage.overlay # Null /\ exitThisPage.location # Null
  /\ exitThisPage.updateSpan = "Exit this page expired."
  /\ exitThisPage.indicator.lit = 0

====
